---- MODULE Spec2Model ----
(***************************************************************************)
(* A model of the request-handling core of gstd (GStreamer Daemon):        *)
(* the HTTP IPC of libgstd/gstd_http.c (accept task, worker pool, pause /  *)
(* unpause hand-off, start / stop) and the object tree its commands act on.*)
(*                                                                         *)
(* Library calls are modelled by their documented behaviour:               *)
(*  - g_thread_pool_new (func, NULL, max_threads, FALSE, &err) makes a     *)
(*    non-exclusive pool: an unbounded task queue served by at most        *)
(*    max_threads threads that are created on demand by a push.            *)
(*  - g_thread_pool_push () always appends the task to the queue.  It      *)
(*    returns FALSE only when a new thread was needed and could not be     *)
(*    created; GLib: "error can only occur when a new thread couldn't be   *)
(*    created.  In that case data is simply appended to the queue of work  *)
(*    to do".                                                              *)
(*  - g_thread_pool_free (pool, FALSE, TRUE) returns once every queued     *)
(*    task has been processed.                                             *)
(*  - g_return_val_if_fail (expr, val) returns val when expr fails, unless *)
(*    the build defines G_DISABLE_CHECKS, which compiles the check away.   *)
(*  - libsoup sends a message's response from the server's main context    *)
(*    once its handler has returned and the message is not paused; the     *)
(*    handler (server_callback) and gstd_http_start / gstd_http_stop run   *)
(*    on that same main thread, do_request on pool threads.                *)
(***************************************************************************)
EXTENDS Integers, Sequences, FiniteSets, TLC

\* Bounds of the model.
MaxReq == 2        \* HTTP requests that arrive in one behaviour
MaxThreads == 2    \* largest configured http-max-threads
MaxStarts == 2     \* calls of gstd_http_start in one behaviour
MaxStops == 2      \* consecutive calls of gstd_http_stop that are counted
MaxCallers == 2    \* threads calling into the object tree
MaxOps == 3        \* calls they make in one behaviour, all together
MaxNodes == 2      \* pipeline nodes allocated in one behaviour
MaxUpd == 2        \* state updates through one held reference
MaxSvc == 2        \* socket services created in one behaviour
MaxCtl == 2        \* threads calling gstd_socket_start / gstd_socket_stop
MaxConn == 2       \* TCP connections accepted in one behaviour
MaxCmds == 2       \* reads that return data, on all connections together
MaxSessThreads == 2  \* threads acquiring and releasing the session
MaxSess == 2       \* session instances constructed in one behaviour
MaxAcq == 2        \* acquisitions of the session by one thread
MaxParams == 2     \* parameters of an action signal

NULL == "NULL"

\* GSTD_HTTP_DEFAULT_MAX_THREADS, the default of http-max-threads.
DefaultMaxThreads == 16

Req == 1..MaxReq
\* Pool threads: as many as the largest limit, and as many as there are
\* requests for a pool without a limit.
Wk == 1..(IF MaxReq > MaxThreads THEN MaxReq ELSE MaxThreads)
Callers == 1..MaxCallers
NodeIds == 1..MaxNodes
Names == {"p0"}
Svc == 1..MaxSvc
Ctl == 1..MaxCtl
Conn == 1..MaxConn
SessThreads == 1..MaxSessThreads
SessIds == 1..MaxSess

ReturnCodes ==
  {"EOK", "NULL_ARGUMENT", "BAD_COMMAND", "NO_RESOURCE", "EXISTING_RESOURCE",
   "BAD_VALUE", "NO_CONNECTION", "NO_UPDATE", "TIMEOUT"}

VARIABLES
  cfg,      \* fixed at construction: max_threads, the build, the subclass
  mainPc,   \* position of the main (accept) thread; "dead" after a crash
  cur,      \* the request server_callback is handling (0: none)
  caller,   \* which entry point runs the stop steps: "stop" or "start"
  starts,   \* number of gstd_http_start calls so far
  server,   \* self->server: "null" or "live"
  pool,     \* self->pool: "null" or "live"
  queue,    \* the pool's task queue: descriptors, oldest first
  wk,       \* per pool thread: position in do_request and its locals
  rq,       \* per request: the message, its descriptor and history
  pipes,    \* names in session->pipelines, as the HTTP commands see them
  life,     \* history of start / stop: objects made and freed, last return
  tIndex,   \* object tree: the pipelines container's children, in order
  tNode,    \* object tree: every pipeline node ever allocated
  tLock,    \* object tree: holder of the container lock (0: free)
  th,       \* object tree: per calling thread, its call and its locals
  sst,      \* socket IPC: "run", or "dead" after a crash
  sptr,     \* socket IPC: self->service (0: NULL)
  svc,      \* socket IPC: every socket service ever created
  ctl,      \* socket IPC: per thread calling start / stop, its position
  conn,     \* socket IPC: per connection, its task's position and history
  mtx,      \* request mutex: the thread holding self->mutex (-1: free)
  plock,    \* request mutex: the thread holding the container lock (-1: free)
  mth,      \* request mutex: per thread, its position between lock calls
  mmsg,     \* request mutex: per message, paused or not, and its descriptor
  mq,       \* request mutex: the pool's task queue
  mpool,    \* request mutex: self->pool, "null" or "live"
  the_session, \* session: the singleton pointer (0: NULL)
  sInst,    \* session: every instance ever constructed
  sLock,    \* session: the thread holding the singleton mutex (0: free)
  sth,      \* session: per thread, its call and the references it holds
  env,      \* envelope: a parser result and what each transport sent for it
  act       \* action node: a call of its create handler

hvars == <<cfg, mainPc, cur, caller, starts, server, pool, queue, wk, rq,
           pipes, life>>

tvars == <<tIndex, tNode, tLock, th>>

svars == <<sst, sptr, svc, ctl, conn>>

mvars == <<mtx, plock, mth, mmsg, mq, mpool>>

gvars == <<the_session, sInst, sLock, sth>>

xvars == <<env, act>>

vars == <<hvars, tvars, svars, mvars, gvars, xvars>>

----------------------------------------------------------------------------
\* Requests

Input(method, path, ctype, body, bname, bdesc, query, qname, qdesc) ==
  [method |-> method, path |-> path, ctype |-> ctype, body |-> body,
   bname |-> bname, bdesc |-> bdesc, query |-> query, qname |-> qname,
   qdesc |-> qdesc]

NoInput == Input("GET", "/", "none", "empty", NULL, NULL, FALSE, NULL, NULL)

\* The requests of the concurrent runs: the fast paths, a create whose name
\* and description come in the body, a delete whose name comes in the query.
ConcInputs ==
  { Input("GET", "/health", "none", "empty", NULL, NULL, FALSE, NULL, NULL),
    Input("GET", "/pipelines/status", "none", "empty", NULL, NULL, FALSE, NULL, NULL),
    Input("POST", "/pipelines", "json", "obj", "p0", "good", FALSE, NULL, NULL),
    Input("DELETE", "/pipelines", "none", "empty", NULL, NULL, TRUE, "p0", NULL) }

\* The requests of the one-at-a-time runs: every method on the pooled
\* paths with every shape of body and query string, and the fast paths.
Methods == {"GET", "POST", "PUT", "DELETE", "OPTIONS", "PATCH"}

Bodies ==
  { <<"none", "empty", NULL, NULL>>,
    <<"json", "obj", NULL, NULL>>,
    <<"json", "obj", "p0", "good">>,
    <<"json", "obj", "p0", "bad">>,
    <<"json", "array", "p0", "good">>,
    <<"form", "obj", "p0", "good">> }

Queries ==
  { <<FALSE, NULL, NULL>>,
    <<TRUE, NULL, NULL>>,
    <<TRUE, "p0", "good">> }

SeqInputs ==
  { Input(m, p, b[1], b[2], b[3], b[4], q[1], q[2], q[3]) :
      m \in Methods, p \in {"/pipelines", "/other"}, b \in Bodies, q \in Queries }
  \cup
  { Input(m, p, "none", "empty", NULL, NULL, FALSE, NULL, NULL) :
      m \in {"GET", "POST", "OPTIONS"}, p \in {"/health", "/pipelines/status"} }

\* The requests of the body-parsing runs: a create on /pipelines with every
\* shape of Content-Type, body and query string.  A member is absent (NULL),
\* a string, or a value that is no string; a body is empty, a JSON object, a
\* JSON array or text that does not parse.
NotAString == "<number>"
JsonTypes == {"json", "json_charset"}

BodyShapes ==
  { <<c, "obj", n, d>> : c \in {"none", "json", "json_charset", "form"},
                         n \in {NULL, "p0", NotAString},
                         d \in {NULL, "good", NotAString} }
  \cup
  { <<c, b, "p0", "good">> : c \in {"none", "json", "json_charset", "form"},
                             b \in {"array", "garbage"} }
  \cup
  { <<c, "empty", NULL, NULL>> : c \in {"none", "json", "json_charset", "form"} }

QueryShapes ==
  { <<FALSE, NULL, NULL>>,
    <<TRUE, NULL, NULL>>,
    <<TRUE, "p1", NULL>>,
    <<TRUE, NULL, "other">>,
    <<TRUE, "p1", "other">> }

BodyInputs ==
  { Input("POST", "/pipelines", b[1], b[2], b[3], b[4], q[1], q[2], q[3]) :
      b \in BodyShapes, q \in QueryShapes }

NoResp == <<"none">>
\* A health document without the envelope around it.
status_only ==
  << "{", "\"", "s", "t", "a", "t", "u", "s", "\"", ":", " ", "\"", "h",
     "e", "a", "l", "t", "h", "y", "\"", "}" >>

\* handle_health_request, lines 640-641: the characters of health_response.
health_response ==
  << "{", "\n", " ", " ", "\"", "c", "o", "d", "e", "\"", " ", ":", " ",
     "0", ",", "\n", " ", " ", "\"", "d", "e", "s", "c", "r", "i", "p",
     "t", "i", "o", "n", "\"", " ", ":", " ", "\"", "O", "K", "\"", ",",
     "\n", " ", " ", "\"", "r", "e", "s", "p", "o", "n", "s", "e", "\"",
     " ", ":", " ", "{", "\"", "s", "t", "a", "t", "u", "s", "\"", ":",
     " ", "\"", "h", "e", "a", "l", "t", "h", "y", "\"", "}", "\n", "}" >>

HealthResp == <<"health", health_response>>

InitRq ==
  [st |-> "none", in |-> NoInput, paused |-> FALSE, pauses |-> 0,
   unpauses |-> 0, status |-> 0, resp |-> NoResp, d |-> "none", frees |-> 0,
   qref |-> 0, push |-> "none", full |-> FALSE, parsed |-> 0, by |-> "none",
   locks |-> {}, cmd |-> <<>>, pret |-> "none", hdrs |-> {},
   name |-> NULL, desc |-> NULL]

\* A message libsoup has finished with and that nothing refers to any more.
GoneRq == [InitRq EXCEPT !.st = "gone"]

InitWk == [pc |-> "none", d |-> 0, ret |-> "BAD_COMMAND", status |-> 200]

\* A pipeline node of the object tree: its reference count (the parent's
\* owning reference and the callers'), its play-hold count, the value of
\* its state child, the shape of the state updates it has seen, and the
\* reference count of its engine handle (the pipeline's own reference and
\* those of the status handler).
NoNode ==
  [st |-> "unused", name |-> NULL, refs |-> 0, hold |-> 0, state |-> "null",
   seq |-> "init", eref |-> 0]

\* What start and stop have done so far: pools and servers created and
\* released, the stop calls completed since the last start, and what the
\* last completed call returned; how far gstd_http_finalize has come
\* ("none", "cleared": the mutex is destroyed, "done") and how many tasks
\* were queued or running when it destroyed the mutex.
InitLife ==
  [poolNew |-> 0, poolFree |-> 0, srvNew |-> 0, srvUnref |-> 0, stops |-> 0,
   ret |-> "none", limit |-> 0, fin |-> "none", pending |-> 0]

\* A socket service: whether it listens, and how often stop has closed
\* its listener, stopped it and dropped the owner's reference.
NoSvc == [st |-> "none", closes |-> 0, stops |-> 0, unrefs |-> 0]

\* A thread in gstd_socket_start or gstd_socket_stop: the call and the
\* local variable service.
InitCtl == [pc |-> "idle", op |-> "none", service |-> 0]

\* A connection task (gstd_socket_callback): the result of the read being
\* handled, the number of commands read (command_count), dispatched and
\* answered, the command the last written response belongs to, what the
\* last write transferred, how often the buffer was freed and the
\* connection closed, and how the loop was left.
InitConn ==
  [pc |-> "none", read |-> 0, count |-> 0, parsed |-> 0,
   written |-> 0, wcmd |-> 0, wres |-> "none", frees |-> 0, closes |-> 0,
   why |-> "none"]

\* The threads that use the request mutex: the main loop's thread (0) and
\* the pool's threads.
MuThreads == {0} \cup Wk

\* A thread between the lock calls of server_callback or do_request: its
\* position, its message, what it has done since it last took the mutex,
\* and for the main thread whether stop was called by start.
InitMth == [pc |-> "idle", r |-> 0, crit |-> {}, caller |-> "none"]

\* A pool thread that does not exist.
NoMth == [InitMth EXCEPT !.pc = "none"]

\* A message as the mutex sees it: paused or not, how often it was
\* unpaused, and its descriptor ("none", "alloc", "freed").
InitMsg == [paused |-> FALSE, unpauses |-> 0, d |-> "none"]

\* A session instance: "none", "live" or "gone", its reference count and
\* the acquisitions and releases made on it.
NoSess == [st |-> "none", refs |-> 0, acq |-> 0, rel |-> 0]

\* A thread using the session: its position in gstd_session_new, what its
\* first look at the pointer saw, the instance it was given last, and the
\* instances it holds a reference on.
\* A result of the parser and the bytes each transport has handed to its
\* library for it.
NoEnv == [st |-> "none", ret |-> "EOK", out |-> NULL, http |-> <<>>, tcp |-> <<>>]

\* A call of the create handler of an action node: its position, the
\* parameter types of the signal, the description (its words, or none), the
\* argument list ("none": NULL, "alloc", "freed") and its pieces, how often
\* the list was freed and the signal emitted, and the return code.
NoAct ==
  [pc |-> "idle", types |-> <<>>, desc |-> [set |-> FALSE, words |-> <<>>],
   list |-> "none",
   arg_list |-> <<>>, frees |-> 0, emits |-> 0, ret |-> "EOK"]

InitSth == [pc |-> "idle", seen |-> 0, got |-> 0, held |-> <<>>, nacq |-> 0]

\* A thread calling into the object tree: its position in the call, the
\* call, its name operand, the node it holds, what the last call returned
\* and the calls and updates it has made.
\* pos is the position of the status handler in the list, tmo the timeout
\* of the caller's last state query (-1: no query made) and val the string
\* of its last update when the string names no state.
InitTh ==
  [pc |-> "idle", op |-> "none", name |-> NULL, node |-> 0, ret |-> "EOK",
   nops |-> 0, nupd |-> 0, pos |-> 0, tmo |-> -1, val |-> NULL]

----------------------------------------------------------------------------
\* Pure functions of gstd_http.c

\* A status table that treats BAD_VALUE like any other error.
status_without_no_content(ret) ==
  IF ret = "EOK" THEN 200
  ELSE IF ret = "BAD_COMMAND" \/ ret = "NO_RESOURCE" THEN 404
  ELSE IF ret = "EXISTING_RESOURCE" THEN 409
  ELSE 400

get_status_code(ret) ==
  IF ret = "EOK" THEN 200
  ELSE IF ret = "BAD_COMMAND" \/ ret = "NO_RESOURCE" THEN 404
  ELSE IF ret = "EXISTING_RESOURCE" THEN 409
  ELSE IF ret = "BAD_VALUE" THEN 204
  ELSE 400

\* json_object_get_string_member on a member that is present: its string,
\* or NULL when the member holds no string.
StringMember(v) == IF v = NotAString THEN NULL ELSE v

\* parse_json_body: name and description members of a JSON body.  Nothing
\* is set for an empty body, for a Content-Type that does not begin with
\* application/json, for text that does not parse and for a root that is
\* no object.
parse_json_body(in) ==
  IF in.body = "empty" THEN [name |-> NULL, desc |-> NULL]
  ELSE IF in.ctype \notin JsonTypes THEN [name |-> NULL, desc |-> NULL]
  ELSE IF in.body = "garbage" THEN [name |-> NULL, desc |-> NULL]
  ELSE IF in.body # "obj" THEN [name |-> NULL, desc |-> NULL]
  ELSE [name |-> StringMember(in.bname), desc |-> StringMember(in.bdesc)]

\* A choice of the name that prefers the query string.
QueryFirst(in) ==
  LET b == parse_json_body(in)
  IN  IF in.query /\ in.qname # NULL THEN in.qname ELSE b.name

\* do_request, lines 458-465: the body first, then the query string.
RequestName(in) ==
  LET b == parse_json_body(in)
  IN  IF b.name = NULL /\ in.query THEN in.qname ELSE b.name

RequestDesc(in) ==
  LET b == parse_json_body(in)
  IN  IF b.desc = NULL /\ in.query THEN in.qdesc ELSE b.desc

\* The command line each do_* builds with g_strdup_printf, as its tokens;
\* <<>> when the function returns before building one.
do_get(path) == <<"read", path>>

NameCheck(name, checks) ==
  IF name # NULL THEN "EOK"
  ELSE IF checks THEN "NULL_ARGUMENT"
  ELSE "BAD_VALUE"

\* A create that leaves the description out of the command.
create_without_description(path, name, desc) == <<"create", path, name>>

do_post(path, name, desc) ==
  IF desc # NULL THEN <<"create", path, name, desc>>
  ELSE <<"create", path, name>>

do_put(path, name) == <<"update", path, name>>

do_delete(path, name) == <<"delete", path, name>>

\* gstd_parser_parse_cmd on the command tokens, against the pipelines
\* container; oc is the outcome of a node other than the container.
ParseCmd(toks, ps, oc) ==
  LET verb == toks[1]
      path == toks[2]
      name == IF Len(toks) >= 3 THEN toks[3] ELSE NULL
      desc == IF Len(toks) >= 4 THEN toks[4] ELSE NULL
  IN  IF path = "/other" THEN
        [ret |-> oc, out |-> IF oc = "EOK" THEN "node" ELSE NULL, pipes |-> ps]
      ELSE IF path # "/pipelines" THEN
        [ret |-> "NO_RESOURCE", out |-> NULL, pipes |-> ps]
      ELSE IF verb = "read" THEN
        [ret |-> "EOK", out |-> "list", pipes |-> ps]
      ELSE IF verb = "create" THEN
        IF name = NULL \/ desc = NULL THEN
          [ret |-> "BAD_VALUE", out |-> NULL, pipes |-> ps]
        ELSE IF name \in ps THEN
          [ret |-> "EXISTING_RESOURCE", out |-> NULL, pipes |-> ps]
        ELSE IF desc # "good" THEN
          [ret |-> "BAD_COMMAND", out |-> NULL, pipes |-> ps]
        ELSE [ret |-> "EOK", out |-> NULL, pipes |-> ps \cup {name}]
      ELSE IF verb = "delete" THEN
        IF name \in ps THEN
          [ret |-> "EOK", out |-> NULL, pipes |-> ps \ {name}]
        ELSE [ret |-> "NO_RESOURCE", out |-> NULL, pipes |-> ps]
      ELSE [ret |-> "BAD_COMMAND", out |-> NULL, pipes |-> ps]

\* do_request, lines 471-481: what the method makes of the request.  The
\* result holds the return code, the parser output and the new container,
\* whether the parser ran, the command it was given and what it returned.
Dispatch(in, ps, checks, oc) ==
  LET name == RequestName(in)
      desc == RequestDesc(in)
      skip(ret) == [ret |-> ret, out |-> NULL, pipes |-> ps, parsed |-> FALSE,
                    cmd |-> <<>>, pret |-> "none", name |-> name, desc |-> desc]
      run(toks) == [parsed |-> TRUE, cmd |-> toks, name |-> name, desc |-> desc,
                    pret |-> ParseCmd(toks, ps, oc).ret] @@ ParseCmd(toks, ps, oc)
  IN  IF in.method = "GET" THEN run(do_get(in.path))
      ELSE IF in.method = "POST" THEN
        IF NameCheck(name, checks) # "EOK" THEN skip(NameCheck(name, checks))
        ELSE run(do_post(in.path, name, desc))
      ELSE IF in.method = "PUT" THEN
        IF NameCheck(name, checks) # "EOK" THEN skip(NameCheck(name, checks))
        ELSE run(do_put(in.path, name))
      ELSE IF in.method = "DELETE" THEN
        IF NameCheck(name, checks) # "EOK" THEN skip(NameCheck(name, checks))
        ELSE run(do_delete(in.path, name))
      ELSE IF in.method = "OPTIONS" THEN skip("EOK")
      ELSE skip("BAD_COMMAND")

\* The response envelope of do_request, lines 487-491.
Envelope(ret, out) == <<"envelope", ret, out>>

\* The three CORS headers appended to a header collection of the message.
CorsHeaders(coll, methods) ==
  { <<coll, "Access-Control-Allow-Origin", "*">>,
    <<coll, "Access-Control-Allow-Headers", "origin,range,content-type">>,
    <<coll, "Access-Control-Allow-Methods", methods>> }

\* Lines 805-815: server_callback, for the requests that go to the pool.
PoolCors == CorsHeaders("response", "PUT, GET, POST, DELETE")

\* Lines 644-655 and 689-700: the two fast-path handlers.
FastCors == CorsHeaders("response", "GET")

\* A handler without the /health fast path.
NoFastPath(path) == FALSE

IsHealthPath(path) == path = "/health"

IsStatusPath(path) == path = "/pipelines/status"

----------------------------------------------------------------------------
\* State after gstd_http_init: no server, no pool, nothing in flight.

Constructed ==
  /\ mainPc = "idle"
  /\ cur = 0
  /\ caller = "none"
  /\ starts = 0
  /\ server = "null"
  /\ pool = "null"
  /\ queue = <<>>
  /\ wk = [w \in Wk |-> InitWk]
  /\ rq = [r \in Req |-> InitRq]
  /\ pipes = {}
  /\ life = InitLife
  /\ tIndex = <<>>
  /\ tNode = [n \in NodeIds |-> NoNode]
  /\ tLock = 0
  /\ th = [t \in Callers |-> InitTh]
  /\ sst = "run"
  /\ sptr = 0
  /\ svc = [s \in Svc |-> NoSvc]
  /\ ctl = [t \in Ctl |-> InitCtl]
  /\ conn = [c \in Conn |-> InitConn]
  /\ mtx = -1
  /\ plock = -1
  /\ mth = [t \in MuThreads |-> IF t = 0 THEN InitMth ELSE NoMth]
  /\ mmsg = [r \in Req |-> InitMsg]
  /\ mq = <<>>
  /\ mpool = "null"
  /\ the_session = 0
  /\ sInst = [i \in SessIds |-> NoSess]
  /\ sLock = 0
  /\ sth = [t \in SessThreads |-> InitSth]
  /\ env = NoEnv
  /\ act = NoAct

\* Concurrent runs: any pool size; every request names its object, so the
\* argument checks of the build play no part.
Init ==
  /\ cfg \in [maxThreads : 1..MaxThreads, checks : {TRUE}, stored : {TRUE}]
  /\ Constructed

\* One-at-a-time runs: builds with and without G_DISABLE_CHECKS.
InitSeq ==
  /\ cfg \in [maxThreads : {1}, checks : BOOLEAN, stored : {TRUE}]
  /\ Constructed

\* The next message libsoup hands to the handler.
NextReq(r) ==
  /\ rq[r].st = "none"
  /\ \A q \in Req : q < r => rq[q].st # "none"

\* The main loop is free to dispatch: no handler or start/stop is running.
CanAccept == mainPc = "idle" /\ server = "live" /\ pool = "live"

\* Pool threads.
Threads == {w \in Wk : wk[w].pc # "none"}
IdleWorkers == {w \in Wk : wk[w].pc = "idle"}
BusyWorkers == {w \in Wk : wk[w].pc \notin {"none", "idle"}}

InQueue(d) == \E i \in 1..Len(queue) : queue[i] = d
InPool(d) == InQueue(d) \/ \E w \in BusyWorkers : wk[w].d = d

\* The messages of q that libsoup has written and that no descriptor in
\* the pool (queue qu, threads ws) refers to are forgotten.
Retire(q, qu, ws) ==
  LET held(r) == \/ \E i \in 1..Len(qu) : qu[i] = r
                 \/ \E w \in Wk : ws[w].pc \notin {"none", "idle"} /\ ws[w].d = r
      done(r) == /\ q[r].st = "sent"
                 /\ q[r].d # "alloc"
                 /\ ~held(r)
                 /\ q[r].frees <= 1 /\ q[r].unpauses <= q[r].pauses
                 /\ q[r].qref = 0
  IN  [r \in Req |-> IF done(r) THEN GoneRq ELSE q[r]]

----------------------------------------------------------------------------
\* server_callback, on the main thread

\* handle_health_request: the whole handler is one step of the main thread.
HandleHealth(r, in) ==
  /\ CanAccept /\ NextReq(r)
  /\ IsHealthPath(in.path)
  /\ rq' = [rq EXCEPT ![r] = [@ EXCEPT !.st = "returned", !.in = in,
                                        !.resp = HealthResp, !.status = 200,
                                        !.hdrs = FastCors]]
  /\ UNCHANGED <<cfg, life, mainPc, cur, caller, starts, server, pool, queue, wk,
                 pipes>>
  /\ UNCHANGED <<tvars, svars, mvars, gvars, xvars>>

\* handle_pipelines_status up to GST_OBJECT_UNLOCK: the names are listed
\* while the container is locked.
HandleStatusList(r, in) ==
  /\ CanAccept /\ NextReq(r)
  /\ ~IsHealthPath(in.path) /\ IsStatusPath(in.path)
  /\ rq' = [rq EXCEPT ![r] = [@ EXCEPT !.st = "handling", !.in = in,
                                        !.resp = <<"pstatus", pipes>>,
                                        !.hdrs = FastCors,
                                        !.locks = {"pipelines"}]]
  /\ mainPc' = "cb_count"
  /\ cur' = r
  /\ UNCHANGED <<cfg, life, caller, starts, server, pool, queue, wk, pipes>>
  /\ UNCHANGED <<tvars, svars, mvars, gvars, xvars>>

\* handle_pipelines_status after the unlock: the count is read, the body
\* and status 200 are set.
HandleStatusCount ==
  /\ mainPc = "cb_count"
  /\ rq' = [rq EXCEPT ![cur] = [@ EXCEPT !.st = "returned",
                                          !.resp = Append(@, Cardinality(pipes)),
                                          !.status = 200]]
  /\ mainPc' = "idle"
  /\ cur' = 0
  /\ UNCHANGED <<cfg, life, caller, starts, server, pool, queue, wk, pipes>>
  /\ UNCHANGED <<tvars, svars, mvars, gvars, xvars>>

\* A pool created with max_threads = -1 has no limit.
Unlimited == life.limit = -1

\* g_thread_pool_push starts a new thread when no thread is waiting for
\* work beyond what is queued and the pool may still grow.
NeedThread ==
  /\ Len(queue) - Cardinality(IdleWorkers) >= 0
  /\ Unlimited \/ Cardinality(Threads) < life.limit

\* Every thread the pool may have exists and is running a task.
PoolFull ==
  /\ IdleWorkers = {}
  /\ ~Unlimited /\ Cardinality(Threads) >= life.limit

\* The thread the pool creates next.
FreeSlot == CHOOSE w \in Wk : wk[w].pc = "none" /\ \A v \in Wk : v < w => wk[v].pc # "none"

\* The descriptor is filled (a reference on the query is taken), the
\* message is paused under the mutex, and the descriptor is pushed.
Handoff(q, in) ==
  [q EXCEPT !.st = "handling", !.in = in, !.d = "alloc",
            !.qref = IF in.query THEN 1 ELSE 0,
            !.hdrs = PoolCors,
            !.paused = TRUE, !.pauses = @ + 1, !.full = PoolFull,
            !.locks = {"mutex"}]

\* server_callback, lines 791-823, when the push reports success: the
\* handler returns with the message paused.
CbPushOk(r, in) ==
  /\ CanAccept /\ NextReq(r)
  /\ ~IsHealthPath(in.path) /\ ~IsStatusPath(in.path)
  /\ rq' = [rq EXCEPT ![r] = [Handoff(@, in) EXCEPT !.push = "ok",
                                                     !.st = "returned"]]
  /\ queue' = Append(queue, r)
  /\ wk' = IF NeedThread THEN [wk EXCEPT ![FreeSlot].pc = "idle"] ELSE wk
  /\ UNCHANGED <<cfg, life, mainPc, cur, caller, starts, server, pool, pipes>>
  /\ UNCHANGED <<tvars, svars, mvars, gvars, xvars>>

\* server_callback, lines 791-823, when the push reports failure: the
\* thread could not be created; the task stays in the pool's queue.
CbPushFail(r, in) ==
  /\ CanAccept /\ NextReq(r)
  /\ ~IsHealthPath(in.path) /\ ~IsStatusPath(in.path)
  /\ NeedThread
  /\ rq' = [rq EXCEPT ![r] = [Handoff(@, in) EXCEPT !.push = "fail"]]
  /\ queue' = Append(queue, r)
  /\ mainPc' = "cb_fail"
  /\ cur' = r
  /\ UNCHANGED <<cfg, life, caller, starts, server, pool, wk, pipes>>
  /\ UNCHANGED <<tvars, svars, mvars, gvars, xvars>>

\* A failure branch that only logs, as server_callback did before the
\* cleanup was added.
LogOnly(q) == q

\* Lines 826-829: the query reference is dropped and the descriptor freed.
FailCleanup(q) ==
  [q EXCEPT !.qref = IF q.in.query THEN @ - 1 ELSE @,
            !.d = "freed", !.frees = @ + 1]

CbFailFree ==
  /\ mainPc = "cb_fail"
  /\ rq' = [rq EXCEPT ![cur] = FailCleanup(@)]
  /\ mainPc' = "cb_fail_unpause"
  /\ UNCHANGED <<cfg, life, cur, caller, starts, server, pool, queue, wk, pipes>>
  /\ UNCHANGED <<tvars, svars, mvars, gvars, xvars>>

\* Lines 831-842: under the mutex, status 503 is set and the message is
\* unpaused.
FailAnswer(q) ==
  [q EXCEPT !.status = 503, !.paused = FALSE, !.unpauses = @ + 1,
            !.by = "accept"]

CbFailUnpause ==
  /\ mainPc = "cb_fail_unpause"
  /\ rq' = [rq EXCEPT ![cur] = [FailAnswer(@) EXCEPT !.st = "returned"]]
  /\ mainPc' = "idle"
  /\ cur' = 0
  /\ UNCHANGED <<cfg, life, caller, starts, server, pool, queue, wk, pipes>>
  /\ UNCHANGED <<tvars, svars, mvars, gvars, xvars>>

\* The I/O loop of the server writes the response of a message whose
\* handler has returned and that is not paused.
IOComplete(r) ==
  /\ CanAccept
  /\ rq[r].st = "returned" /\ ~rq[r].paused
  /\ rq' = Retire([rq EXCEPT ![r].st = "sent"], queue, wk)
  /\ UNCHANGED <<cfg, life, mainPc, cur, caller, starts, server, pool, queue, wk,
                 pipes>>
  /\ UNCHANGED <<tvars, svars, mvars, gvars, xvars>>

----------------------------------------------------------------------------
\* do_request, on a pool thread

Alive == mainPc # "dead"

\* The thread that takes the next task: threads are interchangeable, the
\* lowest waiting one is taken.
Taker(w) == w \in IdleWorkers /\ \A v \in IdleWorkers : w <= v

\* Lines 441-456: a thread takes the oldest task and copies the fields of
\* the descriptor under the mutex.
WTake(w) ==
  /\ Alive /\ Taker(w)
  /\ queue # <<>>
  /\ wk' = [wk EXCEPT ![w] = [InitWk EXCEPT !.pc = "exec", !.d = Head(queue)]]
  /\ queue' = Tail(queue)
  /\ UNCHANGED <<cfg, life, mainPc, cur, caller, starts, server, pool, rq, pipes>>
  /\ UNCHANGED <<tvars, svars, mvars, gvars, xvars>>

\* What a node other than the pipelines container may answer.
Outcomes(in) == IF in.path = "/other" THEN ReturnCodes ELSE {"EOK"}

\* Lines 487-511: the envelope and the status are set on the message.
WorkerAnswer(q, res) ==
  [q EXCEPT !.resp = Envelope(res.ret, res.out),
            !.status = get_status_code(res.ret),
            !.name = res.name, !.desc = res.desc,
            !.parsed = IF res.parsed THEN @ + 1 ELSE @,
            !.cmd = IF res.parsed THEN res.cmd ELSE @,
            !.pret = IF res.parsed THEN res.pret ELSE @]

\* Lines 458-511: name and description are found, the method is
\* dispatched, the response body and status are set.
WExec(w) ==
  /\ Alive /\ wk[w].pc = "exec"
  /\ \E oc \in Outcomes(rq[wk[w].d].in) :
       LET d == wk[w].d
           res == Dispatch(rq[d].in, pipes, cfg.checks, oc)
       IN  /\ rq' = [rq EXCEPT ![d] = WorkerAnswer(@, res)]
           /\ pipes' = res.pipes
           /\ wk' = [wk EXCEPT ![w] = [@ EXCEPT !.pc = "unpause", !.ret = res.ret,
                                                !.status = get_status_code(res.ret)]]
  /\ UNCHANGED <<cfg, life, mainPc, cur, caller, starts, server, pool, queue>>
  /\ UNCHANGED <<tvars, svars, mvars, gvars, xvars>>

\* Lines 513-520: under the mutex the message is unpaused.
WUnpause(w) ==
  /\ Alive /\ wk[w].pc = "unpause"
  /\ rq' = [rq EXCEPT ![wk[w].d] = [@ EXCEPT !.paused = FALSE,
                                              !.unpauses = @ + 1,
                                              !.by = "worker"]]
  /\ wk' = [wk EXCEPT ![w].pc = "free"]
  /\ UNCHANGED <<cfg, life, mainPc, cur, caller, starts, server, pool, queue, pipes>>
  /\ UNCHANGED <<tvars, svars, mvars, gvars, xvars>>

\* Lines 522-525: the query reference is dropped, the descriptor freed.
WorkerRelease(q) ==
  [q EXCEPT !.qref = IF q.in.query THEN @ - 1 ELSE @,
            !.d = "freed", !.frees = @ + 1]

\* Lines 522-528: release, and the thread waits for the next task; a
\* thread of a pool that has been freed exits.
WFree(w) ==
  /\ Alive /\ wk[w].pc = "free"
  /\ wk' = [wk EXCEPT ![w] = [InitWk EXCEPT
                               !.pc = IF pool = "live" THEN "idle" ELSE "none"]]
  /\ rq' = Retire([rq EXCEPT ![wk[w].d] = WorkerRelease(@)], queue, wk')
  /\ UNCHANGED <<cfg, life, mainPc, cur, caller, starts, server, pool, queue, pipes>>
  /\ UNCHANGED <<tvars, svars, mvars, gvars, xvars>>

\* A thread is working on memory that is no longer valid: the descriptor
\* was freed, the message was finished, the server was released, or the
\* mutex it is about to lock was destroyed.
Dangling(w) ==
  /\ w \in BusyWorkers
  /\ \/ rq[wk[w].d].d = "freed"
     \/ rq[wk[w].d].st \in {"sent", "dropped"}
     \/ server = "null"
     \/ life.fin # "none"

\* A use of freed memory either goes unnoticed (the steps above) or kills
\* the process, and all of its state with it.
UBCrash ==
  /\ Alive
  /\ \E w \in Wk : Dangling(w)
  /\ mainPc' = "dead"
  /\ cur' = 0
  /\ caller' = "none"
  /\ server' = "null"
  /\ pool' = "null"
  /\ queue' = <<>>
  /\ wk' = [w \in Wk |-> InitWk]
  /\ rq' = [r \in Req |-> GoneRq]
  /\ pipes' = {}
  /\ life' = InitLife
  /\ UNCHANGED <<cfg, starts>>
  /\ UNCHANGED <<tvars, svars, mvars, gvars, xvars>>

----------------------------------------------------------------------------
\* gstd_http_stop and gstd_http_start, on the main thread

\* A pool freed without waiting: g_thread_pool_free (pool, FALSE, FALSE).
PoolNotAwaited == TRUE

\* g_thread_pool_free (pool, FALSE, TRUE) returns when no task is queued
\* or running.
PoolDrained == queue = <<>> /\ BusyWorkers = {}

\* A stop that releases without looking at the pointer.
Unchecked == TRUE

\* Lines 968 and 973: stop frees the pool and releases the server only
\* when the pointer is set.
PoolHeld == pool = "live"
ServerHeld == server = "live"

\* gstd_http_stop is entered.
StopBegin ==
  /\ mainPc = "idle"
  /\ mainPc' = "stop_pool"
  /\ caller' = "stop"
  /\ life' = [life EXCEPT !.ret = "none"]
  /\ UNCHANGED <<cfg, cur, starts, server, pool, queue, wk, rq, pipes>>
  /\ UNCHANGED <<tvars, svars, mvars, gvars, xvars>>

\* Lines 968-971: the pool, if any, is freed once it has drained.
StopPool ==
  /\ mainPc = "stop_pool"
  /\ pool = "live" => PoolDrained
  /\ pool' = "null"
  /\ life' = [life EXCEPT !.poolFree = IF PoolHeld THEN @ + 1 ELSE @]
  /\ wk' = [w \in Wk |-> IF w \in BusyWorkers THEN wk[w] ELSE InitWk]
  /\ mainPc' = "stop_server"
  /\ UNCHANGED <<cfg, cur, caller, starts, server, queue, rq, pipes>>
  /\ UNCHANGED <<tvars, svars, mvars, gvars, xvars>>

\* Lines 973-978: the server is released; messages it had not written
\* are dropped with it.  A call of stop returns EOK here; inside start the
\* creation of the new server follows.
StopServer ==
  /\ mainPc = "stop_server"
  /\ server' = "null"
  /\ rq' = [r \in Req |->
              IF server = "live" /\ rq[r].st = "returned"
              THEN [rq[r] EXCEPT !.st = "dropped"] ELSE rq[r]]
  /\ life' = [life EXCEPT
               !.srvUnref = IF ServerHeld THEN @ + 1 ELSE @,
               !.stops = IF caller = "stop" /\ @ < MaxStops THEN @ + 1 ELSE @,
               !.ret = IF caller = "stop" THEN "EOK" ELSE @]
  /\ mainPc' = IF caller = "start" THEN "start_new"
               ELSE IF caller = "finalize" THEN "fin_clear"
               ELSE "idle"
  /\ caller' = IF caller \in {"start", "finalize"} THEN caller ELSE "none"
  /\ UNCHANGED <<cfg, cur, starts, pool, queue, wk, pipes>>
  /\ UNCHANGED <<tvars, svars, mvars, gvars, xvars>>

\* gstd_http_finalize, lines 261-270: the last reference is dropped; with
\* the enabled flag set, gstd_http_stop is called first.
FinalizeBegin(enabled) ==
  /\ mainPc = "idle" /\ life.fin = "none"
  /\ mainPc' = IF enabled THEN "stop_pool" ELSE "fin_clear"
  /\ caller' = "finalize"
  /\ life' = [life EXCEPT !.ret = "none"]
  /\ UNCHANGED <<cfg, cur, starts, server, pool, queue, wk, rq, pipes>>
  /\ UNCHANGED <<tvars, svars, mvars, gvars, xvars>>

\* Line 272: g_mutex_clear (&self->mutex).
FinalizeClear ==
  /\ mainPc = "fin_clear"
  /\ life' = [life EXCEPT !.fin = "cleared",
                          !.pending = Len(queue) + Cardinality(BusyWorkers)]
  /\ mainPc' = "fin_pool"
  /\ UNCHANGED <<cfg, cur, caller, starts, server, pool, queue, wk, rq, pipes>>
  /\ UNCHANGED <<tvars, svars, mvars, gvars, xvars>>

\* Lines 279-284: a pool that is still there is freed once it has drained;
\* the instance is gone.
FinalizePool ==
  /\ mainPc = "fin_pool"
  /\ pool = "live" => PoolDrained
  /\ pool' = "null"
  /\ life' = [life EXCEPT !.poolFree = IF PoolHeld THEN @ + 1 ELSE @,
                          !.fin = "done"]
  /\ wk' = [w \in Wk |-> IF w \in BusyWorkers THEN wk[w] ELSE InitWk]
  /\ mainPc' = "finalized"
  /\ caller' = "none"
  /\ UNCHANGED <<cfg, cur, starts, server, queue, rq, pipes>>
  /\ UNCHANGED <<tvars, svars, mvars, gvars, xvars>>

\* A start that creates a new server and pool over the old ones.
WithoutStop == "start_new"

\* Line 864: start calls gstd_http_stop before it creates anything.
StopFirst == "stop_pool"

\* gstd_http_start, lines 859-864: it first stops what is running.
StartBegin ==
  /\ mainPc = "idle"
  /\ starts < MaxStarts
  /\ starts' = starts + 1
  /\ mainPc' = StopFirst
  /\ caller' = "start"
  /\ life' = [life EXCEPT !.stops = 0, !.ret = "none"]
  /\ UNCHANGED <<cfg, cur, server, pool, queue, wk, rq, pipes>>
  /\ UNCHANGED <<tvars, svars, mvars, gvars, xvars>>

\* Lines 871-872: the limit g_thread_pool_new is given is self->max_threads
\* as the option parser stored it.
PoolLimit(maxThreads) == maxThreads

\* Lines 867-898: server and pool are created, the address is bound and
\* the handler installed; start returns EOK.
StartOk ==
  /\ mainPc = "start_new"
  /\ server' = "live"
  /\ pool' = "live"
  /\ life' = [life EXCEPT !.srvNew = @ + 1, !.poolNew = @ + 1, !.ret = "EOK",
                          !.limit = PoolLimit(cfg.maxThreads)]
  /\ mainPc' = "idle"
  /\ caller' = "none"
  /\ UNCHANGED <<cfg, cur, starts, queue, wk, rq, pipes>>
  /\ UNCHANGED <<tvars, svars, mvars, gvars, xvars>>

\* The steps of start that can fail, lines 867-890.
StartSteps == {"server", "pool", "address", "listen"}

\* What start has created when the step fails: nothing when
\* soup_server_new gives NULL; the server, and the pool unless
\* g_thread_pool_new gave none, when the pool reports an error; both when
\* the address does not parse or the listen fails.
CreatedBefore(step) ==
  IF step = "server" THEN {{}}
  ELSE IF step = "pool" THEN {{"server"}, {"server", "pool"}}
  ELSE {{"server", "pool"}}

\* An error path that returns without releasing anything.
ReturnsAtOnce(created) == created

\* Lines 900-917, noconnection: what is left of the objects start created.
Noconnection(created) == created \ {"pool", "server"}

\* Lines 867-917: a step of start fails; the pool and the server created
\* so far are released and start returns NO_CONNECTION.
StartFail(step) ==
  /\ mainPc = "start_new"
  /\ \E created \in CreatedBefore(step) :
       LET left == Noconnection(created)
           n(o) == IF o \in created THEN 1 ELSE 0
           f(o) == IF o \in created \ left THEN 1 ELSE 0
       IN  /\ server' = IF "server" \in left THEN "live" ELSE "null"
           /\ pool' = IF "pool" \in left THEN "live" ELSE "null"
           /\ life' = [life EXCEPT !.srvNew = @ + n("server"),
                                   !.srvUnref = @ + f("server"),
                                   !.poolNew = @ + n("pool"),
                                   !.poolFree = @ + f("pool"),
                                   !.ret = "NO_CONNECTION"]
  /\ mainPc' = "idle"
  /\ caller' = "none"
  /\ UNCHANGED <<cfg, cur, starts, queue, wk, rq, pipes>>
  /\ UNCHANGED <<tvars, svars, mvars, gvars, xvars>>

----------------------------------------------------------------------------
Accept(r, in) ==
  \/ HandleHealth(r, in)
  \/ HandleStatusList(r, in)
  \/ CbPushOk(r, in)

Callback == HandleStatusCount \/ CbFailFree \/ CbFailUnpause

Work == \E w \in Wk : WTake(w) \/ WExec(w) \/ WUnpause(w) \/ WFree(w)

Lifecycle ==
  \/ StopBegin \/ StopPool \/ StopServer \/ StartBegin \/ StartOk
  \/ \E step \in StartSteps : StartFail(step)

\* Concurrent requests, thread creation may fail.
Next ==
  \/ \E r \in Req, in \in ConcInputs : Accept(r, in) \/ CbPushFail(r, in)
  \/ Callback
  \/ Work
  \/ \E r \in Req : IOComplete(r)
  \/ Lifecycle
  \/ UBCrash

Spec == Init /\ [][Next]_vars

\* The daemon run with --http-max-threads -1.
InitUnlimited ==
  /\ cfg = [maxThreads |-> -1, checks |-> TRUE, stored |-> TRUE]
  /\ Constructed

SpecUnlimited == InitUnlimited /\ [][Next]_vars

----------------------------------------------------------------------------
\* The object tree: the pipelines container, its pipeline nodes and their
\* state children, called from several threads.

\* The children of the container that carry a name.
Children(name) ==
  {i \in 1..Len(tIndex) : tNode[tIndex[i]].name = name}

\* A container without a lock.
Unlocked == TRUE

\* The container lock can be taken.
CanLock == tLock = 0

\* The node a create allocates.
FreshNode ==
  CHOOSE n \in NodeIds :
    tNode[n].st = "unused" /\ \A m \in NodeIds : m < n => tNode[m].st # "unused"

\* A delete that destroys the node whoever still refers to it.
DestroyAtOnce(refs, hold) == TRUE

\* A node is destroyed when nothing refers to it: neither its parent, nor
\* a caller, nor the play-hold of its state child.
Unreferenced(refs, hold) == refs = 0 /\ hold = 0

\* Dropping one reference of a node.
Unref(nd) ==
  [nd EXCEPT !.refs = @ - 1,
             !.st = IF Unreferenced(nd.refs - 1, nd.hold) THEN "destroyed" ELSE @,
             !.eref = IF Unreferenced(nd.refs - 1, nd.hold) THEN @ - 1 ELSE @]

\* A state child that takes the play-hold and never gives it back.
HoldKept(hold, v) ==
  IF v \in {"playing", "paused"} THEN hold + 1 ELSE hold

\* The play-hold count after an update of the state child to value v.
HoldAfter(hold, v) ==
  IF v \in {"playing", "paused"} THEN hold + 1
  ELSE IF hold > 0 THEN hold - 1
  ELSE hold

\* Whether the updates seen so far are (playing or paused), null pairs.
SeqAfter(seq, v) ==
  IF v \in {"playing", "paused"}
  THEN IF seq \in {"init", "even"} THEN "odd" ELSE "broken"
  ELSE IF seq = "odd" THEN "even" ELSE "broken"

\* A call has returned ret.
Returned(c, ret) ==
  [c EXCEPT !.pc = "idle", !.ret = ret, !.nupd = 0, !.pos = 0, !.val = NULL]

\* The calls made so far by callers 1..t.
RECURSIVE Calls(_)
Calls(t) == IF t = 0 THEN 0 ELSE th[t].nops + Calls(t - 1)

CanCall(t) == th[t].pc = "idle" /\ Calls(MaxCallers) < MaxOps

\* create (name, description) on the container, with a description the
\* engine accepts: under the container lock the name is looked up; a
\* sibling of that name ends the call with nothing changed.
CreateCheck(t, name) ==
  /\ CanCall(t) /\ CanLock
  /\ \E n \in NodeIds : tNode[n].st = "unused"
  /\ IF Children(name) # {}
     THEN /\ th' = [th EXCEPT ![t] = [Returned(@, "EXISTING_RESOURCE") EXCEPT
                                       !.op = "create", !.name = name,
                                       !.node = 0, !.nops = @ + 1]]
          /\ tLock' = tLock
     ELSE /\ th' = [th EXCEPT ![t] = [@ EXCEPT !.pc = "c_install",
                                              !.op = "create", !.name = name,
                                              !.node = 0, !.nops = @ + 1]]
          /\ tLock' = t
  /\ UNCHANGED <<tIndex, tNode>>
  /\ UNCHANGED <<hvars, svars, mvars, gvars, xvars>>

\* create: the new node is installed, owned by the container, and the
\* lock released.
CreateInstall(t) ==
  /\ th[t].pc = "c_install"
  /\ \E n \in NodeIds : tNode[n].st = "unused"
  /\ tNode' = [tNode EXCEPT ![FreshNode] =
                 [NoNode EXCEPT !.st = "live", !.name = th[t].name, !.refs = 1,
                                !.eref = 1]]
  /\ tIndex' = Append(tIndex, FreshNode)
  /\ tLock' = 0
  /\ th' = [th EXCEPT ![t] = Returned(@, "EOK")]
  /\ UNCHANGED <<hvars, svars, mvars, gvars, xvars>>

\* delete (name) on the container: under the container lock the child is
\* taken out of the index.
DeleteRemove(t, name) ==
  /\ CanCall(t) /\ CanLock
  /\ IF Children(name) = {}
     THEN /\ th' = [th EXCEPT ![t] = [Returned(@, "NO_RESOURCE") EXCEPT
                                       !.op = "delete", !.name = name,
                                       !.node = 0, !.nops = @ + 1]]
          /\ tIndex' = tIndex
     ELSE LET i == CHOOSE j \in Children(name) : TRUE
          IN  /\ th' = [th EXCEPT ![t] = [@ EXCEPT !.pc = "d_release",
                                                   !.op = "delete",
                                                   !.name = name,
                                                   !.node = tIndex[i],
                                                   !.nops = @ + 1]]
              /\ tIndex' = SubSeq(tIndex, 1, i - 1) \o SubSeq(tIndex, i + 1, Len(tIndex))
  /\ UNCHANGED <<tNode, tLock>>
  /\ UNCHANGED <<hvars, svars, mvars, gvars, xvars>>

\* delete: the container's owning reference is released.
DeleteRelease(t) ==
  /\ th[t].pc = "d_release"
  /\ tNode' = [tNode EXCEPT ![th[t].node] = Unref(@)]
  /\ th' = [th EXCEPT ![t] = Returned(@, "EOK")]
  /\ UNCHANGED <<tIndex, tLock>>
  /\ UNCHANGED <<hvars, svars, mvars, gvars, xvars>>

\* Path resolution of /pipelines/<name>/state: under the container lock
\* the child is looked up and returned with one more reference.
GetByUri(t, name) ==
  /\ CanCall(t) /\ CanLock
  /\ IF Children(name) = {}
     THEN /\ th' = [th EXCEPT ![t] = [Returned(@, "NO_RESOURCE") EXCEPT
                                       !.op = "resolve", !.name = name,
                                       !.node = 0, !.nops = @ + 1]]
          /\ tNode' = tNode
     ELSE LET n == tIndex[CHOOSE j \in Children(name) : TRUE]
          IN  /\ th' = [th EXCEPT ![t] = [@ EXCEPT !.pc = "held", !.op = "resolve",
                                                   !.name = name, !.node = n,
                                                   !.ret = "EOK", !.nops = @ + 1]]
              /\ tNode' = [tNode EXCEPT ![n].refs = @ + 1]
  /\ UNCHANGED <<tIndex, tLock>>
  /\ UNCHANGED <<hvars, svars, mvars, gvars, xvars>>

\* The state names the model uses, and the strings an update is tried with:
\* those and two that name no state.
StateNames == {"playing", "paused", "null"}
StateInputs == StateNames \cup {"invalid_state", ""}

\* Whether the state child accepts the string as a state name.
AnyString(v) == TRUE
ValidState(v) == v \in StateNames

\* What a caller remembers of the string it last updated with: the string
\* when it names no state, nothing otherwise (the pipeline has the value).
Refused(v) == IF v \in StateNames THEN NULL ELSE v

\* update (value) on the state child: a string that names no state is
\* answered with BAD_VALUE; otherwise, under the pipeline's object lock, the
\* play-hold is adjusted and the value stored.
UpdateState(t, v) ==
  /\ th[t].pc = "held" /\ th[t].nupd < MaxUpd
  /\ IF ValidState(v)
     THEN /\ tNode' = [tNode EXCEPT ![th[t].node] =
                        [@ EXCEPT !.hold = HoldAfter(@, v), !.state = v,
                                  !.seq = SeqAfter(@, v)]]
          /\ th' = [th EXCEPT ![t] = [@ EXCEPT !.nupd = @ + 1,
                                               !.val = Refused(v),
                                               !.ret = "EOK"]]
     ELSE /\ th' = [th EXCEPT ![t] = [@ EXCEPT !.nupd = @ + 1,
                                               !.val = Refused(v),
                                               !.ret = "BAD_VALUE"]]
          /\ UNCHANGED tNode
  /\ UNCHANGED <<tIndex, tLock>>
  /\ UNCHANGED <<hvars, svars, mvars, gvars, xvars>>

\* The timeout of the state child's query of the engine, in nanoseconds:
\* 100 ms.
StateTimeout == 100 * 1000000

\* read on the state child: the engine is asked for the pipeline's state.
ReadState(t) ==
  /\ th[t].pc = "held" /\ th[t].nupd < MaxUpd
  /\ th[t].tmo # StateTimeout
  /\ th' = [th EXCEPT ![t] = [@ EXCEPT !.tmo = StateTimeout, !.nupd = @ + 1,
                                       !.val = NULL]]
  /\ UNCHANGED <<tIndex, tNode, tLock>>
  /\ UNCHANGED <<hvars, svars, mvars, gvars, xvars>>

\* The caller releases the reference it got from the resolution.
Release(t) ==
  /\ th[t].pc = "held"
  /\ tNode' = [tNode EXCEPT ![th[t].node] = Unref(@)]
  /\ th' = [th EXCEPT ![t] = Returned(@, "EOK")]
  /\ UNCHANGED <<tIndex, tLock>>
  /\ UNCHANGED <<hvars, svars, mvars, gvars, xvars>>

\* handle_pipelines_status, line 706: the main loop's thread takes the
\* container lock and starts at the head of the list.
StatusLock(t) ==
  /\ t = 1
  /\ CanCall(t) /\ CanLock
  /\ tLock' = t
  /\ th' = [th EXCEPT ![t] = [@ EXCEPT !.pc = "s_next", !.op = "status",
                                       !.name = NULL, !.node = 0, !.pos = 0,
                                       !.tmo = -1, !.nops = @ + 1]]
  /\ UNCHANGED <<tIndex, tNode>>
  /\ UNCHANGED <<hvars, svars, mvars, gvars, xvars>>

\* A handler that queries the engine handle without a reference of its
\* own.
Borrowed(e) == e

\* Line 721: gst_object_ref on the engine handle.
RefElement(e) == e + 1

\* Lines 709-721: the next pipeline of the list is visited, its engine
\* handle fetched and referenced.
StatusVisit(t) ==
  /\ th[t].pc = "s_next" /\ th[t].pos < Len(tIndex)
  /\ LET n == tIndex[th[t].pos + 1]
     IN  /\ th' = [th EXCEPT ![t] = [@ EXCEPT !.pc = "s_query", !.node = n,
                                              !.pos = @ + 1]]
         /\ tNode' = [tNode EXCEPT ![n].eref = RefElement(@)]
  /\ UNCHANGED <<tIndex, tLock>>
  /\ UNCHANGED <<hvars, svars, mvars, gvars, xvars>>

\* The timeout the status handler passes to gst_element_get_state, in
\* nanoseconds (line 722).
StatusTimeout == 0

\* Line 722: the state of the engine handle is queried.
StatusQuery(t) ==
  /\ th[t].pc = "s_query"
  /\ th' = [th EXCEPT ![t] = [@ EXCEPT !.pc = "s_unref", !.tmo = StatusTimeout]]
  /\ UNCHANGED <<tIndex, tNode, tLock>>
  /\ UNCHANGED <<hvars, svars, mvars, gvars, xvars>>

\* Lines 723-734: the reference is dropped and the entry appended.
StatusUnref(t) ==
  /\ th[t].pc = "s_unref"
  /\ tNode' = [tNode EXCEPT ![th[t].node].eref = @ - 1]
  /\ th' = [th EXCEPT ![t] = [@ EXCEPT !.pc = "s_next", !.node = 0]]
  /\ UNCHANGED <<tIndex, tLock>>
  /\ UNCHANGED <<hvars, svars, mvars, gvars, xvars>>

\* Line 737: the end of the list is reached and the lock released.
StatusUnlock(t) ==
  /\ th[t].pc = "s_next" /\ th[t].pos = Len(tIndex)
  /\ tLock' = 0
  /\ th' = [th EXCEPT ![t] = Returned(@, "EOK")]
  /\ UNCHANGED <<tIndex, tNode>>
  /\ UNCHANGED <<hvars, svars, mvars, gvars, xvars>>

\* Command strings the parser has to reject: no string, the empty string,
\* an unknown shorthand and an unknown verb.
ParseInputs == {NULL, "", "this_is_not_a_valid_command", "bogus /pipelines"}

\* gstd_parser_parse_cmd on such a string: the argument check answers a
\* NULL command, the dispatch table finds no entry for an unknown verb or
\* shorthand, and the empty string crashes the parser.
gstd_parser_parse_cmd(cmd) ==
  IF cmd = NULL THEN "NULL_ARGUMENT"
  ELSE IF cmd = "" THEN "crash"
  ELSE "BAD_COMMAND"

\* The process after a crash: nothing of the tree is left.
TreeDead ==
  /\ th' = [t \in Callers |-> [InitTh EXCEPT !.pc = "dead"]]
  /\ tIndex' = <<>>
  /\ tNode' = [n \in NodeIds |-> NoNode]
  /\ tLock' = 0

\* A thread gives the parser a command it cannot execute.
ParseRejected(t, cmd) ==
  /\ CanCall(t)
  /\ IF gstd_parser_parse_cmd(cmd) = "crash"
     THEN TreeDead
     ELSE /\ th' = [th EXCEPT ![t] = [Returned(@, gstd_parser_parse_cmd(cmd))
                                        EXCEPT !.op = "parse", !.name = cmd,
                                               !.node = 0, !.nops = @ + 1]]
          /\ UNCHANGED <<tIndex, tNode, tLock>>
  /\ UNCHANGED <<hvars, svars, mvars, gvars, xvars>>

InitTree ==
  /\ cfg = [maxThreads |-> 1, checks |-> TRUE, stored |-> TRUE]
  /\ Constructed

NextTree ==
  \/ \E t \in Callers, name \in Names :
       CreateCheck(t, name) \/ DeleteRemove(t, name) \/ GetByUri(t, name)
  \/ \E t \in Callers : CreateInstall(t) \/ DeleteRelease(t) \/ Release(t)
  \/ \E t \in Callers : ReadState(t)
  \/ \E t \in Callers, cmd \in ParseInputs : ParseRejected(t, cmd)
  \/ \E t \in Callers, v \in StateNames : UpdateState(t, v)
  \/ \E t \in Callers :
       \/ StatusLock(t) \/ StatusVisit(t) \/ StatusQuery(t)
       \/ StatusUnref(t) \/ StatusUnlock(t)

SpecTree == InitTree /\ [][NextTree]_vars

\* The callers of the object tree when the state child is also given
\* strings that name no state: pipelines are created, resolved, updated,
\* read, released and deleted.
NextState ==
  \/ \E t \in Callers, name \in Names :
       CreateCheck(t, name) \/ DeleteRemove(t, name) \/ GetByUri(t, name)
  \/ \E t \in Callers : CreateInstall(t) \/ DeleteRelease(t) \/ Release(t)
  \/ \E t \in Callers : ReadState(t)
  \/ \E t \in Callers, v \in StateInputs : UpdateState(t, v)

SpecState == InitTree /\ [][NextState]_vars

\* No request is being handled or waiting to be written.
Quiet == \A q \in Req : rq[q].st \in {"none", "gone", "dropped"}

\* One request at a time; the server is (re)started between requests.
NextSeq ==
  \/ \E r \in Req, in \in SeqInputs : Quiet /\ Accept(r, in)
  \/ HandleStatusCount
  \/ Work
  \/ \E r \in Req : IOComplete(r)
  \/ Quiet /\ StartBegin
  \/ StopPool
  \/ StopServer
  \/ StartOk

SpecSeq == InitSeq /\ [][NextSeq]_vars

\* One create at a time, with every shape of body and query string.
NextBody ==
  \/ \E r \in Req, in \in BodyInputs : Quiet /\ CbPushOk(r, in)
  \/ Work
  \/ \E r \in Req : IOComplete(r)
  \/ Quiet /\ StartBegin
  \/ StopPool
  \/ StopServer
  \/ StartOk

SpecBody == InitSeq /\ [][NextBody]_vars

\* Concurrent requests on an instance that is started and then finalized.
NextFinal ==
  \/ \E r \in Req, in \in ConcInputs : Accept(r, in)
  \/ HandleStatusCount
  \/ Work
  \/ \E r \in Req : IOComplete(r)
  \/ StartBegin
  \/ StopBegin
  \/ StopPool
  \/ StopServer
  \/ StartOk
  \/ \E enabled \in BOOLEAN : FinalizeBegin(enabled)
  \/ FinalizeClear
  \/ FinalizePool
  \/ UBCrash

SpecFinal == InitSeq /\ [][NextFinal]_vars

----------------------------------------------------------------------------
\* The socket IPC (gstd_socket.c): gstd_socket_start and gstd_socket_stop,
\* called from any thread, and one task per accepted connection.
\*
\* Library calls are modelled by their documented behaviour:
\*  - a GThreadedSocketService runs the "run" handler of each accepted
\*    connection on a thread of its own pool; the handler's task holds a
\*    reference on the service while it runs.
\*  - g_socket_listener_close closes the listening sockets;
\*    g_socket_service_stop stops the acceptance of connections; neither
\*    they nor g_object_unref wait for handlers that are running.
\*  - g_input_stream_read (stream, buf, count) returns -1 on error, 0 at
\*    end of stream, and otherwise the number of bytes read, at most count.
\*  - g_output_stream_write (stream, buf, count) returns -1 on error and
\*    otherwise the number of bytes written, which may be less than count.
\*  - g_io_stream_close closes the stream whether or not it reports an
\*    error.

\* const guint size = 1024 * 1024: the bytes allocated for the read buffer
\* and the count given to g_input_stream_read.
size == 1024 * 1024

\* What a read may return.
ReadResults == {-1, 0, 1, size - 1, size}

\* message[read] = '\0' stores inside the size bytes of the buffer.
TerminatorInside(read) == read >= 0 /\ read < size

\* What a write of count = strlen (response) + 1 bytes may transfer: an
\* error, a part of the bytes, or the envelope and its terminating NUL.
WriteResults == {"error", "short", "all"}

\* The next connection the service hands to a task.
NextConn(c) ==
  /\ conn[c].pc = "none"
  /\ \A b \in Conn : b < c => conn[b].pc # "none"

\* Lines 84-134: a listening service accepts a connection; its task looks
\* up the peer, takes the streams and allocates the buffer.
SockAccept(c, s) ==
  /\ sst = "run" /\ NextConn(c)
  /\ svc[s].st = "live"
  /\ conn' = [conn EXCEPT ![c] = [InitConn EXCEPT !.pc = "read"]]
  /\ UNCHANGED <<sst, sptr, svc, ctl>>
  /\ UNCHANGED <<hvars, tvars, mvars, gvars, xvars>>

\* The commands read so far on connections 1..c.
RECURSIVE Commands(_)
Commands(c) == IF c = 0 THEN 0 ELSE conn[c].count + Commands(c - 1)

\* Lines 137-153: one read; nothing or an error ends the loop, otherwise
\* the buffer is terminated at the byte count and the command counted.
SockRead(c, r) ==
  /\ sst = "run" /\ conn[c].pc = "read"
  /\ r > 0 => Commands(MaxConn) < MaxCmds
  /\ conn' = [conn EXCEPT ![c] =
       IF r <= 0
       THEN [@ EXCEPT !.pc = "close", !.read = r, !.wres = "none",
                      !.why = IF r < 0 THEN "read error" ELSE "peer closed"]
       ELSE [@ EXCEPT !.pc = "parse", !.read = r, !.wres = "none",
                      !.count = @ + 1]]
  /\ UNCHANGED <<sst, sptr, svc, ctl>>
  /\ UNCHANGED <<hvars, tvars, mvars, gvars, xvars>>

\* A loop that reads the next command once the parser has returned.
Pipelined == "read"

\* Lines 158-175: after the parser the response is built and written.
AfterParse == "write"

\* Lines 158-175: the buffer is dispatched as one command and the envelope
\* is built from the parser's code and output.
SockParse(c) ==
  /\ sst = "run" /\ conn[c].pc = "parse"
  /\ conn' = [conn EXCEPT ![c] = [@ EXCEPT !.pc = AfterParse, !.parsed = @ + 1]]
  /\ UNCHANGED <<sst, sptr, svc, ctl>>
  /\ UNCHANGED <<hvars, tvars, mvars, gvars, xvars>>

\* Lines 177-191: one write of the envelope and its NUL; only a negative
\* result ends the loop.
SockWrite(c, w) ==
  /\ sst = "run" /\ conn[c].pc = "write"
  /\ conn' = [conn EXCEPT ![c] =
       [@ EXCEPT !.pc = IF w = "error" THEN "close" ELSE "read",
                 !.read = 0, !.written = @ + 1, !.wcmd = conn[c].count, !.wres = w,
                 !.why = IF w = "error" THEN "write error" ELSE @]]
  /\ UNCHANGED <<sst, sptr, svc, ctl>>
  /\ UNCHANGED <<hvars, tvars, mvars, gvars, xvars>>

\* A task that returns when its loop ends.
ReturnOnly(cn) ==
  [InitConn EXCEPT !.pc = "done", !.why = cn.why,
                   !.count = cn.count]

\* Lines 194-209: after the loop the buffer is freed and the connection
\* closed, and the task returns; of its locals the count of commands is
\* remembered.
LeaveLoop(cn) ==
  [InitConn EXCEPT !.pc = "done", !.why = cn.why,
                   !.count = cn.count,
                   !.frees = cn.frees + 1, !.closes = cn.closes + 1]

SockClose(c) ==
  /\ sst = "run" /\ conn[c].pc = "close"
  /\ conn' = [conn EXCEPT ![c] = LeaveLoop(@)]
  /\ UNCHANGED <<sst, sptr, svc, ctl>>
  /\ UNCHANGED <<hvars, tvars, mvars, gvars, xvars>>

\* gstd_socket_stop is entered.
SockStopBegin(t) ==
  /\ sst = "run" /\ ctl[t].pc = "idle"
  /\ ctl' = [ctl EXCEPT ![t] = [InitCtl EXCEPT !.pc = "s_check", !.op = "stop"]]
  /\ UNCHANGED <<sst, sptr, svc, conn>>
  /\ UNCHANGED <<hvars, tvars, mvars, gvars, xvars>>

\* Services created so far and those a running start will still create.
Claimed ==
  Cardinality({s \in Svc : svc[s].st # "none"})
    + Cardinality({t \in Ctl : ctl[t].op = "start" /\ ctl[t].pc # "idle"})

\* gstd_socket_start, lines 213-222: it calls gstd_socket_stop first.
SockStartBegin(t) ==
  /\ sst = "run" /\ ctl[t].pc = "idle"
  /\ Claimed < MaxSvc
  /\ ctl' = [ctl EXCEPT ![t] = [InitCtl EXCEPT !.pc = "s_check", !.op = "start"]]
  /\ UNCHANGED <<sst, sptr, svc, conn>>
  /\ UNCHANGED <<hvars, tvars, mvars, gvars, xvars>>

\* Where a call goes when its stop part is over: stop returns, start goes
\* on to create the service.
StopDone(cl) ==
  IF cl.op = "start" THEN [cl EXCEPT !.pc = "create"]
  ELSE [cl EXCEPT !.pc = "idle", !.op = "none"]

\* Line 251: if (self->service).
SockStopCheck(t) ==
  /\ sst = "run" /\ ctl[t].pc = "s_check"
  /\ ctl' = [ctl EXCEPT ![t] =
       IF sptr # 0 THEN [@ EXCEPT !.pc = "s_take"] ELSE StopDone(@)]
  /\ UNCHANGED <<sst, sptr, svc, conn>>
  /\ UNCHANGED <<hvars, tvars, mvars, gvars, xvars>>

\* Line 252: service = self->service.
SockStopTake(t) ==
  /\ sst = "run" /\ ctl[t].pc = "s_take"
  /\ ctl' = [ctl EXCEPT ![t] = [@ EXCEPT !.pc = "s_clear", !.service = sptr]]
  /\ UNCHANGED <<sst, sptr, svc, conn>>
  /\ UNCHANGED <<hvars, tvars, mvars, gvars, xvars>>

\* Line 253: self->service = NULL.
SockStopClear(t) ==
  /\ sst = "run" /\ ctl[t].pc = "s_clear"
  /\ sptr' = 0
  /\ ctl' = [ctl EXCEPT ![t].pc = "s_cleanup"]
  /\ UNCHANGED <<sst, svc, conn>>
  /\ UNCHANGED <<hvars, tvars, mvars, gvars, xvars>>

\* Lines 254-261: the listener is closed, the service stopped and the
\* reference dropped; nobody is waited for.  With a NULL service the
\* three calls return at their argument checks.
SockStopCleanup(t) ==
  /\ sst = "run" /\ ctl[t].pc = "s_cleanup"
  /\ ctl[t].service = 0 => cfg.checks
  /\ svc' = IF ctl[t].service = 0 THEN svc
            ELSE [svc EXCEPT ![ctl[t].service] =
                    [@ EXCEPT !.st = "closed", !.closes = @ + 1,
                              !.stops = @ + 1, !.unrefs = @ + 1]]
  /\ ctl' = [ctl EXCEPT ![t] = StopDone(@)]
  /\ UNCHANGED <<sst, sptr, conn>>
  /\ UNCHANGED <<hvars, tvars, mvars, gvars, xvars>>

\* The service a start creates next.
FreshSvc ==
  CHOOSE s \in Svc :
    svc[s].st = "none" /\ \A r \in Svc : r < s => svc[r].st # "none"

\* create_socket_service of the subclass: it makes a threaded socket
\* service listening on the configured address, or fails; whether the
\* instance's service pointer is set to the new service is a property of
\* the subclass.
CreateSocketService(ok) ==
  [st |-> IF ok THEN "live" ELSE "closed",
   ptr |-> IF ok /\ cfg.stored THEN FreshSvc ELSE sptr]

\* Lines 224-237: the service is created, the handler connected and the
\* service started; a failed creation is returned as it is.
SockCreate(t, ok) ==
  /\ sst = "run" /\ ctl[t].pc = "create"
  /\ LET made == CreateSocketService(ok)
     IN  /\ svc' = [svc EXCEPT ![FreshSvc].st = made.st]
         /\ sptr' = made.ptr
         /\ ctl' = [ctl EXCEPT ![t] = [@ EXCEPT !.pc = "idle", !.op = "none"]]
  /\ UNCHANGED <<sst, conn>>
  /\ UNCHANGED <<hvars, tvars, mvars, gvars, xvars>>

\* Memory is misused: a terminator was just stored outside the read
\* buffer, a service was released twice, or a NULL service was passed on by a build
\* without argument checks.
SockMisuse ==
  \/ \E c \in Conn : conn[c].pc = "parse" /\ ~TerminatorInside(conn[c].read)
  \/ \E s \in Svc : svc[s].unrefs > 1
  \/ \E t \in Ctl : ctl[t].pc = "s_cleanup" /\ ctl[t].service = 0 /\ ~cfg.checks

\* The misuse either goes unnoticed (the steps above) or kills the
\* process, and all of its state with it.
SockCrash ==
  /\ sst = "run" /\ SockMisuse
  /\ sst' = "dead"
  /\ sptr' = 0
  /\ svc' = [s \in Svc |-> NoSvc]
  /\ ctl' = [t \in Ctl |-> InitCtl]
  /\ conn' = [c \in Conn |-> InitConn]
  /\ UNCHANGED <<hvars, tvars, mvars, gvars, xvars>>

\* The subclass may or may not store the service; builds with and without
\* G_DISABLE_CHECKS.
InitSock ==
  /\ cfg \in [maxThreads : {1}, checks : BOOLEAN, stored : BOOLEAN]
  /\ Constructed

ConnTask(c) ==
  \/ \E s \in Svc : SockAccept(c, s)
  \/ \E r \in ReadResults : SockRead(c, r)
  \/ SockParse(c)
  \/ \E w \in WriteResults : SockWrite(c, w)
  \/ SockClose(c)

StartStop(t) ==
  \/ SockStopBegin(t) \/ SockStartBegin(t)
  \/ SockStopCheck(t) \/ SockStopTake(t) \/ SockStopClear(t)
  \/ SockStopCleanup(t)
  \/ \E ok \in BOOLEAN : SockCreate(t, ok)

\* Start and stop called from several threads, one connection.
NextSock ==
  \/ ConnTask(1)
  \/ \E t \in Ctl : StartStop(t)
  \/ SockCrash

SpecSock == InitSock /\ [][NextSock]_vars

\* A subclass that stores the service, a build with argument checks.
InitConns ==
  /\ cfg = [maxThreads |-> 1, checks |-> TRUE, stored |-> TRUE]
  /\ Constructed

\* Several connections, start and stop called from one thread.
NextConns ==
  \/ \E c \in Conn : ConnTask(c)
  \/ StartStop(1)
  \/ SockCrash

SpecConn == InitConns /\ [][NextConns]_vars

----------------------------------------------------------------------------
\* The HTTP request mutex (self->mutex), step by step: every g_mutex_lock
\* and g_mutex_unlock of server_callback and do_request is a step of its
\* own, so that what a thread does while it holds the mutex, and what it
\* waits for, is visible.  gstd_http_stop and gstd_http_start run on the
\* main loop's thread.  The parser is taken to hold the container lock of
\* the pipelines while it works (create, delete), as the status handler
\* does.

Rest == UNCHANGED <<hvars, tvars, svars, gvars, xvars>>

MuMain == mth[0]

\* The next message libsoup hands to server_callback.
NextMsg(r) ==
  /\ mmsg[r].d = "none"
  /\ \A q \in Req : q < r => mmsg[q].d # "none"

MuIdle == {w \in Wk : mth[w].pc = "idle"}
MuBusy == {w \in Wk : mth[w].pc \notin {"none", "idle"}}

\* handle_pipelines_status, line 706: the container lock is taken.
MuStatusLock ==
  /\ MuMain.pc = "idle" /\ mpool = "live"
  /\ plock = -1
  /\ plock' = 0
  /\ mth' = [mth EXCEPT ![0].pc = "st_iter"]
  /\ UNCHANGED <<mtx, mmsg, mq, mpool>>
  /\ Rest

\* Lines 709-737: the list is walked and the lock released.
MuStatusUnlock ==
  /\ MuMain.pc = "st_iter"
  /\ plock' = -1
  /\ mth' = [mth EXCEPT ![0].pc = "idle"]
  /\ UNCHANGED <<mtx, mmsg, mq, mpool>>
  /\ Rest

\* server_callback, lines 791-816: the descriptor is filled, the headers
\* appended, and the mutex taken.
MuCbLock(r) ==
  /\ MuMain.pc = "idle" /\ mpool = "live"
  /\ NextMsg(r)
  /\ mtx = -1
  /\ mtx' = 0
  /\ mth' = [mth EXCEPT ![0] = [@ EXCEPT !.pc = "cb_pause", !.r = r, !.crit = {}]]
  /\ mmsg' = [mmsg EXCEPT ![r].d = "alloc"]
  /\ UNCHANGED <<plock, mq, mpool>>
  /\ Rest

\* Lines 817-821: the message is paused.
MuCbPause ==
  /\ MuMain.pc = "cb_pause"
  /\ mmsg' = [mmsg EXCEPT ![MuMain.r].paused = TRUE]
  /\ mth' = [mth EXCEPT ![0] = [@ EXCEPT !.pc = "cb_unlock",
                                          !.crit = @ \cup {"pause"}]]
  /\ UNCHANGED <<mtx, plock, mq, mpool>>
  /\ Rest

\* Line 822.
MuCbUnlock ==
  /\ MuMain.pc = "cb_unlock"
  /\ mtx' = -1
  /\ mth' = [mth EXCEPT ![0].pc = "cb_push"]
  /\ UNCHANGED <<plock, mmsg, mq, mpool>>
  /\ Rest

\* The pool has to start a thread for the task.
MuNeedThread ==
  /\ Len(mq) - Cardinality(MuIdle) >= 0
  /\ \E w \in Wk : mth[w].pc = "none"

MuFreeSlot ==
  CHOOSE w \in Wk : mth[w].pc = "none" /\ \A v \in Wk : v < w => mth[v].pc # "none"

\* Line 823, g_thread_pool_push: the task is queued; when a thread has to
\* be started and cannot be, the push reports failure.
MuCbPush(ok) ==
  /\ MuMain.pc = "cb_push"
  /\ ok \/ MuNeedThread
  /\ mq' = Append(mq, MuMain.r)
  /\ mth' = IF ok
            THEN IF MuNeedThread
                 THEN [mth EXCEPT ![0] = [@ EXCEPT !.pc = "idle", !.r = 0],
                                  ![MuFreeSlot].pc = "idle"]
                 ELSE [mth EXCEPT ![0] = [@ EXCEPT !.pc = "idle", !.r = 0]]
            ELSE [mth EXCEPT ![0].pc = "cb_fail"]
  /\ UNCHANGED <<mtx, plock, mmsg, mpool>>
  /\ Rest

\* Lines 824-829: the descriptor is freed.
MuCbFailFree ==
  /\ MuMain.pc = "cb_fail"
  /\ mmsg' = [mmsg EXCEPT ![MuMain.r].d = "freed"]
  /\ mth' = [mth EXCEPT ![0].pc = "cbf_lock"]
  /\ UNCHANGED <<mtx, plock, mq, mpool>>
  /\ Rest

\* Line 831.
MuCbFailLock ==
  /\ MuMain.pc = "cbf_lock"
  /\ mtx = -1
  /\ mtx' = 0
  /\ mth' = [mth EXCEPT ![0] = [@ EXCEPT !.pc = "cbf_status", !.crit = {}]]
  /\ UNCHANGED <<plock, mmsg, mq, mpool>>
  /\ Rest

\* Lines 832-841: status 503 is set and the message unpaused.
MuCbFailStatus ==
  /\ MuMain.pc = "cbf_status"
  /\ mmsg' = [mmsg EXCEPT ![MuMain.r] =
                [@ EXCEPT !.paused = FALSE,
                          !.unpauses = IF @ < 2 THEN @ + 1 ELSE @]]
  /\ mth' = [mth EXCEPT ![0] = [@ EXCEPT !.pc = "cbf_unlock",
                                          !.crit = @ \cup {"status503", "unpause"}]]
  /\ UNCHANGED <<mtx, plock, mq, mpool>>
  /\ Rest

\* Line 842.
MuCbFailUnlock ==
  /\ MuMain.pc = "cbf_unlock"
  /\ mtx' = -1
  /\ mth' = [mth EXCEPT ![0] = [@ EXCEPT !.pc = "idle", !.r = 0]]
  /\ UNCHANGED <<plock, mmsg, mq, mpool>>
  /\ Rest

MuAlive == MuMain.pc # "dead"

\* A pool thread takes the oldest task.
MuTake(w) ==
  /\ MuAlive
  /\ w \in MuIdle /\ \A v \in MuIdle : w <= v
  /\ mq # <<>>
  /\ mth' = [mth EXCEPT ![w] = [@ EXCEPT !.pc = "rq_lock1", !.r = Head(mq)]]
  /\ mq' = Tail(mq)
  /\ UNCHANGED <<mtx, plock, mmsg, mpool>>
  /\ Rest

\* do_request, line 450.
MuRqLock1(w) ==
  /\ MuAlive
  /\ mth[w].pc = "rq_lock1"
  /\ mtx = -1
  /\ mtx' = w
  /\ mth' = [mth EXCEPT ![w] = [@ EXCEPT !.pc = "rq_read", !.crit = {}]]
  /\ UNCHANGED <<plock, mmsg, mq, mpool>>
  /\ Rest

\* A worker that keeps the mutex while it runs the command.
HoldThroughParse == "rq_parse"

\* Line 456: the mutex is released after the fields are copied.
AfterRead == "rq_unlock1"

\* Lines 451-455: the fields of the descriptor are copied.
MuRqRead(w) ==
  /\ MuAlive
  /\ mth[w].pc = "rq_read"
  /\ mth' = [mth EXCEPT ![w] = [@ EXCEPT !.pc = AfterRead,
                                          !.crit = @ \cup {"fields"}]]
  /\ UNCHANGED <<mtx, plock, mmsg, mq, mpool>>
  /\ Rest

\* Line 456.
MuRqUnlock1(w) ==
  /\ MuAlive
  /\ mth[w].pc = "rq_unlock1"
  /\ mtx' = -1
  /\ mth' = [mth EXCEPT ![w].pc = "rq_parse"]
  /\ UNCHANGED <<plock, mmsg, mq, mpool>>
  /\ Rest

\* Lines 458-481: the command is built and given to the parser, which
\* takes the container lock.
MuRqParse(w) ==
  /\ MuAlive
  /\ mth[w].pc = "rq_parse"
  /\ plock = -1
  /\ plock' = w
  /\ mth' = [mth EXCEPT ![w] = [@ EXCEPT !.pc = "rq_engine",
                                          !.crit = IF mtx = w THEN @ \cup {"parser"}
                                                   ELSE @]]
  /\ UNCHANGED <<mtx, mmsg, mq, mpool>>
  /\ Rest

\* The parser returns; lines 482-511 set the response and the status.
MuRqParsed(w) ==
  /\ MuAlive
  /\ mth[w].pc = "rq_engine"
  /\ plock' = -1
  /\ mth' = [mth EXCEPT ![w].pc = "rq_lock2"]
  /\ UNCHANGED <<mtx, mmsg, mq, mpool>>
  /\ Rest

\* Line 513.
MuRqLock2(w) ==
  /\ MuAlive
  /\ mth[w].pc = "rq_lock2"
  /\ mtx = -1
  /\ mtx' = w
  /\ mth' = [mth EXCEPT ![w] = [@ EXCEPT !.pc = "rq_unpause", !.crit = {}]]
  /\ UNCHANGED <<plock, mmsg, mq, mpool>>
  /\ Rest

\* Lines 515-519: the message is unpaused.
MuRqUnpause(w) ==
  /\ MuAlive
  /\ mth[w].pc = "rq_unpause"
  /\ mmsg' = [mmsg EXCEPT ![mth[w].r] =
                [@ EXCEPT !.paused = FALSE,
                          !.unpauses = IF @ < 2 THEN @ + 1 ELSE @]]
  /\ mth' = [mth EXCEPT ![w] = [@ EXCEPT !.pc = "rq_unlock2",
                                          !.crit = @ \cup {"unpause"}]]
  /\ UNCHANGED <<mtx, plock, mq, mpool>>
  /\ Rest

\* Line 520.
MuRqUnlock2(w) ==
  /\ MuAlive
  /\ mth[w].pc = "rq_unlock2"
  /\ mtx' = -1
  /\ mth' = [mth EXCEPT ![w].pc = "rq_free"]
  /\ UNCHANGED <<plock, mmsg, mq, mpool>>
  /\ Rest

\* Lines 522-528: the descriptor is freed; the thread waits for the next
\* task, or exits when the pool has been freed.
MuRqFree(w) ==
  /\ MuAlive
  /\ mth[w].pc = "rq_free"
  /\ mmsg' = [mmsg EXCEPT ![mth[w].r].d = "freed"]
  /\ mth' = [mth EXCEPT ![w] = IF mpool = "live" THEN InitMth ELSE NoMth]
  /\ UNCHANGED <<mtx, plock, mq, mpool>>
  /\ Rest

\* A pool thread works on a descriptor the failure branch has freed: the
\* use of freed memory goes unnoticed (the steps above) or kills the
\* process.
MuCrash ==
  /\ MuAlive
  /\ \E w \in MuBusy : mmsg[mth[w].r].d = "freed"
  /\ mtx' = -1
  /\ plock' = -1
  /\ mth' = [t \in MuThreads |-> IF t = 0 THEN [InitMth EXCEPT !.pc = "dead"]
                                 ELSE NoMth]
  /\ mmsg' = [r \in Req |-> InitMsg]
  /\ mq' = <<>>
  /\ mpool' = "null"
  /\ Rest

\* A pool freed without waiting for its tasks.
MuNotAwaited == TRUE

\* g_thread_pool_free (pool, FALSE, TRUE) returns when no task is queued
\* or running.
MuDrained == mq = <<>> /\ MuBusy = {}

\* gstd_http_stop is called; gstd_http_start calls it first (line 864).
MuStopBegin(by) ==
  /\ MuMain.pc = "idle"
  /\ mth' = [mth EXCEPT ![0] = [@ EXCEPT !.pc = "stop_pool", !.caller = by]]
  /\ UNCHANGED <<mtx, plock, mmsg, mq, mpool>>
  /\ Rest

\* Lines 968-971: the pool, if any, is freed once it has drained; its
\* threads exit.
MuStopPool ==
  /\ MuMain.pc = "stop_pool"
  /\ mpool = "live" => MuDrained
  /\ mpool' = "null"
  /\ mth' = [t \in MuThreads |->
               IF t = 0 THEN [mth[0] EXCEPT !.pc = "stop_server"]
               ELSE IF t \in MuBusy THEN mth[t] ELSE NoMth]
  /\ UNCHANGED <<mtx, plock, mmsg, mq>>
  /\ Rest

\* Lines 973-978: the server is released and stop returns.
MuStopServer ==
  /\ MuMain.pc = "stop_server"
  /\ mth' = [mth EXCEPT ![0] =
               [@ EXCEPT !.pc = IF MuMain.caller = "start"
                                THEN "start_new" ELSE "idle",
                         !.caller = "none"]]
  /\ UNCHANGED <<mtx, plock, mmsg, mq, mpool>>
  /\ Rest

\* gstd_http_start, lines 867-898: the server and the pool are created.
MuStartNew ==
  /\ MuMain.pc = "start_new"
  /\ mpool' = "live"
  /\ mth' = [mth EXCEPT ![0].pc = "idle"]
  /\ UNCHANGED <<mtx, plock, mmsg, mq>>
  /\ Rest

MuCallback ==
  \/ MuStatusLock \/ MuStatusUnlock
  \/ \E r \in Req : MuCbLock(r)
  \/ MuCbPause \/ MuCbUnlock
  \/ \E ok \in BOOLEAN : MuCbPush(ok)
  \/ MuCbFailFree \/ MuCbFailLock \/ MuCbFailStatus \/ MuCbFailUnlock

MuWork(w) ==
  \/ MuTake(w) \/ MuRqLock1(w) \/ MuRqRead(w) \/ MuRqUnlock1(w)
  \/ MuRqParse(w) \/ MuRqParsed(w)
  \/ MuRqLock2(w) \/ MuRqUnpause(w) \/ MuRqUnlock2(w) \/ MuRqFree(w)

MuLifecycle ==
  \/ \E by \in {"stop", "start"} : MuStopBegin(by)
  \/ MuStopPool \/ MuStopServer \/ MuStartNew

InitMutex ==
  /\ cfg = [maxThreads |-> MaxThreads, checks |-> TRUE, stored |-> TRUE]
  /\ Constructed

NextMutex ==
  \/ MuCallback
  \/ \E w \in Wk : MuWork(w)
  \/ MuLifecycle
  \/ MuCrash

SpecMutex == InitMutex /\ [][NextMutex]_vars

----------------------------------------------------------------------------
\* The session singleton: gstd_session_new and the release of a session
\* reference, called from several threads.  The pointer to the singleton
\* is looked at once without the process-wide mutex and once more under
\* it; the instance is constructed or referenced under the mutex, and the
\* release of the last reference clears the pointer under the mutex.

SessRest == UNCHANGED <<hvars, tvars, svars, mvars, xvars>>

\* gstd_session_new: the first look at the pointer, without the mutex.
SessFirstCheck(t) ==
  /\ sth[t].pc = "idle" /\ sth[t].nacq < MaxAcq
  /\ sth' = [sth EXCEPT ![t] = [@ EXCEPT !.pc = "s_lock", !.seen = the_session,
                                          !.nacq = @ + 1]]
  /\ UNCHANGED <<the_session, sInst, sLock>>
  /\ SessRest

\* The process-wide mutex is taken.
SessLock(t) ==
  /\ sth[t].pc = "s_lock"
  /\ sLock = 0
  /\ sLock' = t
  /\ sth' = [sth EXCEPT ![t].pc = "s_check"]
  /\ UNCHANGED <<the_session, sInst>>
  /\ SessRest

\* An initialization that trusts the first look.
TrustFirstLook(seen) == seen

\* The second look at the pointer, under the mutex.
SecondCheck(seen) == the_session

\* The instance a construction allocates.
FreshSess ==
  CHOOSE i \in SessIds :
    sInst[i].st = "none" /\ \A j \in SessIds : j < i => sInst[j].st # "none"

\* Under the mutex: the first call constructs the instance and publishes
\* it; a later call takes one more reference on the published instance.
SessGet(t) ==
  /\ sth[t].pc = "s_check"
  /\ \E i \in SessIds : sInst[i].st = "none"
  /\ LET new == SecondCheck(sth[t].seen) = 0
         i == IF new THEN FreshSess ELSE SecondCheck(sth[t].seen)
     IN  /\ sInst' = [sInst EXCEPT ![i] =
                        IF new THEN [st |-> "live", refs |-> 1, acq |-> 1, rel |-> 0]
                        ELSE [@ EXCEPT !.refs = @ + 1, !.acq = @ + 1]]
         /\ the_session' = i
         /\ sth' = [sth EXCEPT ![t] = [@ EXCEPT !.pc = "s_unlock", !.got = i]]
  /\ UNCHANGED sLock
  /\ SessRest

\* The mutex is released and the instance returned to the caller.
SessUnlock(t) ==
  /\ sth[t].pc = "s_unlock"
  /\ sLock' = 0
  /\ sth' = [sth EXCEPT ![t] = [@ EXCEPT !.pc = "idle",
                                          !.held = Append(@, sth[t].got)]]
  /\ UNCHANGED <<the_session, sInst>>
  /\ SessRest

\* gst_object_unref on a session reference: the count is decremented;
\* the release of the last reference tears the instance down and clears
\* the pointer, under the mutex.
SessRelease(t, k) ==
  /\ sth[t].pc = "idle" /\ k \in 1..Len(sth[t].held)
  /\ sLock = 0
  /\ LET i == sth[t].held[k]
         last == sInst[i].refs = 1
     IN  /\ sInst' = [sInst EXCEPT ![i] =
                        [@ EXCEPT !.refs = @ - 1, !.rel = @ + 1,
                                  !.st = IF last THEN "gone" ELSE @]]
         /\ the_session' = IF last /\ the_session = i THEN 0 ELSE the_session
  /\ sth' = [sth EXCEPT ![t].held =
               SubSeq(@, 1, k - 1) \o SubSeq(@, k + 1, Len(@))]
  /\ UNCHANGED sLock
  /\ SessRest

InitSession ==
  /\ cfg = [maxThreads |-> 1, checks |-> TRUE, stored |-> TRUE]
  /\ Constructed

NextSession ==
  \E t \in SessThreads :
    \/ SessFirstCheck(t) \/ SessLock(t) \/ SessGet(t) \/ SessUnlock(t)
    \/ \E k \in 1..MaxSessThreads * MaxAcq : SessRelease(t, k)

SpecSession == InitSession /\ [][NextSession]_vars

----------------------------------------------------------------------------
\* The response envelope on the two transports (do_request and
\* gstd_socket_callback).
\*
\* A C string is the sequence of its pieces followed by the terminating NUL;
\* a piece is a literal of the format, the %d of a return code, the %s of
\* its description, or the parser's output.

EnvRest == UNCHANGED <<hvars, tvars, svars, mvars, gvars, act>>

NUL == <<"NUL">>

RECURSIVE strlen(_)
strlen(str) == IF Head(str) = NUL THEN 0 ELSE 1 + strlen(Tail(str))

\* The first count bytes of a buffer.
Bytes(str, count) == SubSeq(str, 1, count)

\* What the parser may leave in output.
ParserOutputs == {NULL, "[]", "{\"name\":\"p0\"}", "\"playing\"", "{}"}

\* gstd_http.c, lines 487-491: description and response of do_request.
HttpResponse(ret, output) ==
  << <<"text", "{\n  \"code\" : ">>, <<"%d", ret>>,
     <<"text", ",\n  \"description\" : \"">>,
     <<"%s", "gstd_return_code_to_string", ret>>,
     <<"text", "\",\n  \"response\" : ">>,
     IF output # NULL THEN <<"%s", output>> ELSE <<"text", "null">>,
     <<"text", "\n}">>, NUL >>

\* part_002, lines 169-173: description and response of
\* gstd_socket_callback.
TcpResponse(ret, output) ==
  << <<"text", "{\n  \"code\" : ">>, <<"%d", ret>>,
     <<"text", ",\n  \"description\" : \"">>,
     <<"%s", "gstd_return_code_to_string", ret>>,
     <<"text", "\",\n  \"response\" : ">>,
     IF output # NULL THEN <<"%s", output>> ELSE <<"text", "null">>,
     <<"text", "\n}">>, NUL >>

\* The count given to soup_server_message_set_response (lines 495-500).
HttpCount(response) == strlen(response)

\* A write of the string without its terminator.
WithoutTerminator(response) == strlen(response)

\* The count given to g_output_stream_write (part_002, lines 176-178).
TcpCount(response) == strlen(response) + 1

\* gstd_parser_parse_cmd returns a code and an output.
EnvParse(ret, output) ==
  /\ env.st = "none"
  /\ env' = [env EXCEPT !.st = "parsed", !.ret = ret, !.out = output]
  /\ EnvRest

\* do_request sets the response body of the message.
EnvHttp ==
  /\ env.st = "parsed" /\ env.http = <<>>
  /\ env' = [env EXCEPT !.http =
               Bytes(HttpResponse(env.ret, env.out),
                     HttpCount(HttpResponse(env.ret, env.out)))]
  /\ EnvRest

\* gstd_socket_callback hands the response to the output stream.
EnvTcp ==
  /\ env.st = "parsed" /\ env.tcp = <<>>
  /\ env' = [env EXCEPT !.tcp =
               Bytes(TcpResponse(env.ret, env.out),
                     TcpCount(TcpResponse(env.ret, env.out)))]
  /\ EnvRest

InitEnvelope ==
  /\ cfg = [maxThreads |-> 1, checks |-> TRUE, stored |-> TRUE]
  /\ Constructed

NextEnvelope ==
  \/ \E ret \in ReturnCodes, output \in ParserOutputs : EnvParse(ret, output)
  \/ EnvHttp
  \/ EnvTcp

SpecEnvelope == InitEnvelope /\ [][NextEnvelope]_vars

----------------------------------------------------------------------------
\* The create handler of an action node (gstd_action_create_default).
\*
\* A description is a NULL pointer (set is FALSE) or a string, held as the
\* sequence of the words that single spaces separate in it: "" is the
\* empty sequence and "(null)" the one word "(null)".  A piece of a split
\* string is the sequence of the words it holds.
\*  - g_strsplit (string, " ", max_tokens) gives no piece for "", every
\*    word as a piece when max_tokens < 1, and otherwise at most max_tokens
\*    pieces, the last one holding the remainder of the string.
\*  - g_strv_length (NULL) fails its argument check and returns 0; built
\*    without the checks it reads through the NULL pointer.
\*  - g_strfreev (NULL) does nothing.

ActRest == UNCHANGED <<hvars, tvars, svars, mvars, gvars, env>>

\* Lines 246-264: the types the handler converts an argument to, and one
\* it does not.
SupportedTypes ==
  {"string", "int", "uint", "uint64", "boolean", "float", "double"}
ParamTypes == SupportedTypes \cup {"object"}

\* The signals: every list of up to MaxParams parameter types.
Signals == UNION { [1..n -> ParamTypes] : n \in 0..MaxParams }

\* The descriptions: none, "", "(null)", and one to MaxParams + 1 words.
NoDescription == [set |-> FALSE, words |-> <<>>]
EmptyString == [set |-> TRUE, words |-> <<>>]
NullString == [set |-> TRUE, words |-> <<"(null)">>]
Descriptions ==
  {NoDescription, EmptyString, NullString} \cup
  { [set |-> TRUE, words |-> [i \in 1..k |-> "1"]] :
      k \in 1..(MaxParams + 1) }

g_strsplit(string, max_tokens) ==
  IF max_tokens < 1 \/ Len(string) <= max_tokens
  THEN [i \in 1..Len(string) |-> <<string[i]>>]
  ELSE [i \in 1..max_tokens |->
          IF i < max_tokens THEN <<string[i]>>
          ELSE SubSeq(string, max_tokens, Len(string))]

\* gstd_object_create reaches the handler of an action whose signal has
\* the parameter types types, with a description.
ActCall(types, description) ==
  /\ act.pc = "idle"
  /\ act' = [NoAct EXCEPT !.pc = "check", !.types = types, !.desc = description]
  /\ ActRest

\* Line 227: with parameters, a description that is NULL, "(null)" or "".
Missing(n_params, description) ==
  n_params > 0 /\ description \in {NoDescription, EmptyString, NullString}

\* Lines 227-231: a missing description is answered NULL_ARGUMENT;
\* otherwise a description is split into at most n_params pieces.
ActSplit ==
  /\ act.pc = "check"
  /\ act' =
       IF Missing(Len(act.types), act.desc)
       THEN [act EXCEPT !.pc = "returned", !.ret = "NULL_ARGUMENT"]
       ELSE IF act.desc.set
       THEN [act EXCEPT !.pc = "count", !.list = "alloc",
                        !.arg_list =
                          g_strsplit(act.desc.words, Len(act.types))]
       ELSE [act EXCEPT !.pc = "count"]
  /\ ActRest

\* Lines 233-235: the return for a list whose length is not n_params.
CountMismatch(a) ==
  [a EXCEPT !.pc = "returned", !.ret = "NULL_ARGUMENT"]

\* Line 233: g_strv_length (arg_list) is compared with n_params.
ActCount ==
  /\ act.pc = "count"
  /\ act.list = "none" => cfg.checks
  /\ act' = IF Len(act.arg_list) # Len(act.types)
            THEN CountMismatch(act)
            ELSE [act EXCEPT !.pc = "convert"]
  /\ ActRest

\* Line 233 in a build without the argument checks: g_strv_length reads
\* through the NULL list.
ActCrash ==
  /\ act.pc = "count"
  /\ act.list = "none" /\ ~cfg.checks
  /\ act' = [NoAct EXCEPT !.pc = "dead"]
  /\ ActRest

\* Lines 238-264: the arguments are converted; a type that is none of the
\* seven ends the loop with BAD_COMMAND.
ActConvert ==
  /\ act.pc = "convert"
  /\ act' = IF \A i \in 1..Len(act.types) : act.types[i] \in SupportedTypes
            THEN [act EXCEPT !.pc = "emit"]
            ELSE [act EXCEPT !.pc = "out", !.ret = "BAD_COMMAND"]
  /\ ActRest

\* Lines 266-276: g_signal_emitv.
ActEmit ==
  /\ act.pc = "emit"
  /\ act' = [act EXCEPT !.pc = "out", !.emits = @ + 1]
  /\ ActRest

\* Lines 278-284, out: the values are unset, args and the list are freed,
\* ret is returned.
ActOut ==
  /\ act.pc = "out"
  /\ act' = [act EXCEPT !.pc = "returned",
                        !.list = IF @ = "none" THEN "none" ELSE "freed",
                        !.frees = IF act.list = "none" THEN @ ELSE @ + 1]
  /\ ActRest

InitAction ==
  /\ cfg \in [maxThreads : {1}, checks : BOOLEAN, stored : {TRUE}]
  /\ Constructed

NextAction ==
  \/ \E types \in Signals, description \in Descriptions :
       ActCall(types, description)
  \/ ActSplit
  \/ ActCount
  \/ ActCrash
  \/ ActConvert
  \/ ActEmit
  \/ ActOut

SpecAction == InitAction /\ [][NextAction]_vars

----------------------------------------------------------------------------
\* Properties of the HTTP server

\* C1: whenever the server handle is released, no request descriptor is
\* queued or being worked on, every descriptor that was submitted has been
\* freed by its worker and no message is left paused: stop drains the pool
\* before it releases the server, so no worker touches a message or the
\* server afterwards.
C1_StopDrainsBeforeRelease ==
  server = "null" =>
    \A r \in Req : /\ ~InPool(r)
                    /\ rq[r].d # "alloc"
                    /\ ~rq[r].paused

\* C1 witness: the server has been released after a pooled request went
\* through its worker (response set, message unpaused, descriptor freed).
C1_Witness ==
  /\ server = "null" /\ mainPc = "idle"
  /\ \E r \in Req : /\ rq[r].st = "dropped" /\ rq[r].push = "ok"
                    /\ rq[r].by = "worker" /\ rq[r].d = "freed"
                    /\ rq[r].resp # NoResp

\* C2: a message is paused at most once, at handoff, and unpaused at most
\* once; when a worker has unpaused it, body and status are set on it; and
\* the I/O loop has written no message that is still paused.
C2_PausedUnpausedOnce ==
  \A r \in Req :
    /\ rq[r].pauses <= 1
    /\ rq[r].unpauses <= 1
    /\ rq[r].by = "worker" => rq[r].resp # NoResp /\ rq[r].status # 0
    /\ rq[r].paused => rq[r].st # "sent"

\* C3: a request that arrives while every thread of the pool is busy is
\* refused by the push and, once its handler has returned and it is ready
\* to be written, carries status 503.
C3_OverflowAnswered503 ==
  \A r \in Req :
    rq[r].full =>
      /\ rq[r].push = "fail"
      /\ (rq[r].st = "returned" /\ ~rq[r].paused) => rq[r].status = 503

\* C4: a push that reports failure puts the accept task on the cleanup
\* path, and the accept task's next two steps are: drop the query
\* reference it took (if there was a query) and free the descriptor; then
\* set status 503 and unpause the message.  Neither step touches another
\* request, the queue, the threads or the pipelines.
C4_FailureCleanup ==
  [][ /\ \A r \in Req :
           (rq[r].push # "fail" /\ rq'[r].push = "fail")
             => mainPc' = "cb_fail" /\ cur' = r
      /\ (mainPc = "cb_fail" /\ mainPc' \notin {"cb_fail", "dead"})
           => /\ mainPc' = "cb_fail_unpause"
              /\ rq'[cur].d = "freed"
              /\ rq'[cur].frees = rq[cur].frees + 1
              /\ rq'[cur].qref =
                   rq[cur].qref - (IF rq[cur].in.query THEN 1 ELSE 0)
              /\ \A q \in Req \ {cur} : rq'[q] = rq[q]
              /\ UNCHANGED <<queue, wk, pipes, server, pool>>
      /\ (mainPc = "cb_fail_unpause" /\ mainPc' \notin {"cb_fail_unpause", "dead"})
           => /\ mainPc' = "idle"
              /\ rq'[cur].status = 503
              /\ ~rq'[cur].paused
              /\ rq'[cur].unpauses = rq[cur].unpauses + 1
              /\ rq'[cur].st = "returned"
              /\ rq'[cur].d = "freed"
              /\ \A q \in Req \ {cur} : rq'[q] = rq[q]
              /\ UNCHANGED <<queue, wk, pipes, server, pool>>
    ]_vars

\* C4 witness: a request with a query string whose push failed has been
\* answered by the accept task: reference dropped, descriptor freed, status
\* 503, message unpaused.
C4_Witness ==
  /\ mainPc = "idle"
  /\ \E r \in Req : /\ rq[r].push = "fail" /\ rq[r].in.query
                    /\ rq[r].st = "returned" /\ rq[r].by = "accept"
                    /\ rq[r].qref = 0 /\ rq[r].d = "freed" /\ rq[r].frees = 1
                    /\ rq[r].status = 503 /\ ~rq[r].paused

\* C5: the handler answers a /health request in one step of the accept
\* task, whatever the pool is doing: status 200 and the static body are
\* set, the message is not paused, no descriptor is allocated or pushed, no
\* lock is taken, the parser does not run, and queue, threads and
\* pipelines are as before.  Nothing changes the answer afterwards.
C5_HealthInline ==
  [][ \A r \in Req :
        /\ (rq[r].st = "none" /\ rq'[r].st # "none"
              /\ rq'[r].in.path = "/health")
             => /\ rq'[r].st = "returned"
                /\ rq'[r].status = 200 /\ rq'[r].resp = HealthResp
                /\ ~rq'[r].paused /\ rq'[r].pauses = 0
                /\ rq'[r].d = "none" /\ rq'[r].push = "none"
                /\ rq'[r].locks = {} /\ rq'[r].parsed = 0
                /\ mainPc' = "idle"
                /\ UNCHANGED <<queue, wk, pipes>>
        /\ (rq[r].in.path = "/health" /\ rq[r].st = "returned"
              /\ rq'[r].st \notin {"gone", "dropped"})
             => /\ rq'[r].status = 200 /\ rq'[r].resp = HealthResp
                /\ rq'[r].d = "none" /\ rq'[r].parsed = 0
    ]_vars

\* C5 witness: a /health request has its answer while every thread of the
\* pool is busy with another request.
C5_Witness ==
  /\ PoolFull /\ BusyWorkers # {}
  /\ \E r \in Req : /\ rq[r].in.path = "/health" /\ rq[r].st = "returned"
                    /\ rq[r].status = 200 /\ rq[r].resp = HealthResp

\* The status the specification gives for a return code.
StatusTable ==
  [c \in ReturnCodes |->
     CASE c = "EOK" -> 200
       [] c \in {"BAD_COMMAND", "NO_RESOURCE"} -> 404
       [] c = "EXISTING_RESOURCE" -> 409
       [] c = "BAD_VALUE" -> 204
       [] OTHER -> 400]

\* C9: once a worker has computed its response, the status it holds and
\* the status on the message are the table's value for its return code,
\* whatever the request was: 200 for EOK, 404 for BAD_COMMAND and
\* NO_RESOURCE, 409 for EXISTING_RESOURCE, 204 for BAD_VALUE, 400 for
\* every other code.
C9_StatusFromReturnCode ==
  \A w \in Wk :
    wk[w].pc \in {"unpause", "free"} =>
      /\ wk[w].ret \in ReturnCodes
      /\ wk[w].status = StatusTable[wk[w].ret]
      /\ rq[wk[w].d].status = StatusTable[wk[w].ret]
      /\ rq[wk[w].d].resp[2] = wk[w].ret

\* C9 witness: a worker has answered BAD_VALUE with 204.
C9_Witness ==
  \E w \in Wk :
    /\ wk[w].pc = "unpause" /\ wk[w].ret = "BAD_VALUE"
    /\ rq[wk[w].d].status = 204

\* A POST, PUT or DELETE for which neither body nor query gives a name.
Nameless(in) ==
  in.method \in {"POST", "PUT", "DELETE"} /\ RequestName(in) = NULL

\* C10: the worker answers a POST, PUT or DELETE without a name with
\* return code BAD_VALUE and status 204, without the parser having run for
\* the request.
C10_MissingNameBadValue ==
  \A w \in Wk :
    (wk[w].pc \in {"unpause", "free"} /\ Nameless(rq[wk[w].d].in)) =>
      /\ wk[w].ret = "BAD_VALUE"
      /\ rq[wk[w].d].status = 204
      /\ rq[wk[w].d].parsed = 0

\* C11: when a worker has dispatched a request, the parser was given
\* exactly one command, made from the method, the path P and the name N and
\* description D of the request: "read P" for GET; for POST with a name
\* "create P N D" when there is a description and "create P N" when there is
\* none; "update P N" for PUT and "delete P N" for DELETE with a name; and
\* the code in the response envelope is the code the parser returned.
C11_CommandFromMethod ==
  \A w \in Wk :
    wk[w].pc \in {"unpause", "free"} =>
      LET q == rq[wk[w].d]
          P == q.in.path
          N == RequestName(q.in)
          D == RequestDesc(q.in)
          given(toks) == q.parsed = 1 /\ q.cmd = toks
      IN  /\ q.in.method = "GET" => given(<<"read", P>>)
          /\ (q.in.method = "POST" /\ N # NULL /\ D # NULL)
               => given(<<"create", P, N, D>>)
          /\ (q.in.method = "POST" /\ N # NULL /\ D = NULL)
               => given(<<"create", P, N>>)
          /\ (q.in.method = "PUT" /\ N # NULL) => given(<<"update", P, N>>)
          /\ (q.in.method = "DELETE" /\ N # NULL) => given(<<"delete", P, N>>)
          /\ q.parsed <= 1
          /\ q.parsed = 1 => /\ q.pret \in ReturnCodes
                             /\ wk[w].ret = q.pret
                             /\ q.resp = <<"envelope", q.pret, q.resp[3]>>

\* C11 witness: a POST whose name and description come from the query
\* string has been dispatched as "create P N D" and the parser returned EOK.
C11_Witness ==
  \E w \in Wk :
    /\ wk[w].pc = "unpause"
    /\ rq[wk[w].d].in.method = "POST"
    /\ rq[wk[w].d].in.bdesc = NULL /\ rq[wk[w].d].in.qdesc = "good"
    /\ rq[wk[w].d].cmd = <<"create", "/pipelines", "p0", "good">>
    /\ rq[wk[w].d].pret = "EOK"

\* C18: when a call of gstd_http_stop has returned and no start has begun
\* since, before any start or after any number of stops in a row, it
\* returned EOK and the instance has no pool and no server, and nothing has
\* been freed that was not created; a stop that follows a stop frees no
\* pool, releases no server and changes no request, thread or pipeline.
C18_StopIdempotent ==
  /\ [](/\ (mainPc = "idle" /\ life.stops >= 1)
             => /\ life.ret = "EOK"
                /\ pool = "null" /\ server = "null"
         /\ life.poolFree <= life.poolNew
         /\ life.srvUnref <= life.srvNew)
  /\ [][ (caller = "stop" /\ life.stops >= 1)
           => /\ life'.poolFree = life.poolFree
              /\ life'.srvUnref = life.srvUnref
              /\ UNCHANGED <<pool, server, queue, wk, rq, pipes>>
     ]_vars

\* C18 witness: a started server has been stopped twice in a row; the one
\* pool and the one server were freed once.
C18_Witness ==
  /\ mainPc = "idle" /\ life.stops = 2 /\ life.ret = "EOK"
  /\ life.poolNew = 1 /\ life.poolFree = 1
  /\ life.srvNew = 1 /\ life.srvUnref = 1

\* C19: the instance has one pool exactly when self->pool is set and one
\* server exactly when self->server is set, never two; when a start has
\* returned EOK both are live; the step of start that creates them finds
\* the old pool drained and freed and the old server released; and a
\* /health request the running server has handled carries status 200.
C19_RestartSingleInstance ==
  /\ [](/\ life.poolNew - life.poolFree = (IF pool = "live" THEN 1 ELSE 0)
         /\ life.srvNew - life.srvUnref = (IF server = "live" THEN 1 ELSE 0)
         /\ (mainPc = "idle" /\ life.ret = "EOK" /\ life.stops = 0)
              => pool = "live" /\ server = "live"
         /\ \A r \in Req :
              (server = "live" /\ rq[r].in.path = "/health"
                 /\ rq[r].st = "returned") => rq[r].status = 200)
  /\ [][ (mainPc = "start_new" /\ life'.ret = "EOK")
           => /\ pool = "null" /\ server = "null"
              /\ PoolDrained
              /\ life.poolNew = life.poolFree /\ life.srvNew = life.srvUnref
              /\ pool' = "live" /\ server' = "live"
     ]_vars

\* C19 witness: the server was started twice, the first pool and server
\* have been freed, and the second server has answered /health with 200.
C19_Witness ==
  /\ mainPc = "idle" /\ starts = 2 /\ life.ret = "EOK"
  /\ life.poolNew = 2 /\ life.poolFree = 1
  /\ life.srvNew = 2 /\ life.srvUnref = 1
  /\ \E r \in Req : /\ rq[r].in.path = "/health" /\ rq[r].st = "returned"
                    /\ rq[r].status = 200

\* C20: when a start has returned NO_CONNECTION and nothing was called
\* since, the instance has no pool and no server, everything the start
\* created has been released, no task is queued and no thread exists, as
\* after a stop; and the failing step leaves requests, pipelines and the
\* object tree as they were.
C20_FailedStartClean ==
  /\ []((mainPc = "idle" /\ life.ret = "NO_CONNECTION")
          => /\ pool = "null" /\ server = "null"
             /\ life.poolNew = life.poolFree
             /\ life.srvNew = life.srvUnref
             /\ queue = <<>> /\ Threads = {})
  /\ [][ (mainPc = "start_new" /\ life'.ret = "NO_CONNECTION")
           => UNCHANGED <<queue, wk, rq, pipes, tvars>>
     ]_vars

\* C20 witness: a restart failed after it had created its server and pool;
\* both were released again and the pipeline created earlier is still
\* there.
C20_Witness ==
  /\ mainPc = "idle" /\ life.ret = "NO_CONNECTION"
  /\ life.poolNew = 2 /\ life.poolFree = 2 /\ life.srvUnref = 2
  /\ pool = "null" /\ server = "null"
  /\ pipes = {"p0"}

\* The CORS headers every response is to carry.
RequiredCors ==
  { <<"response", "Access-Control-Allow-Origin", "*">>,
    <<"response", "Access-Control-Allow-Headers", "origin,range,content-type">>,
    <<"response", "Access-Control-Allow-Methods", "PUT, GET, POST, DELETE">> }

\* C22: every message that has been given a response (by a worker, by the
\* 503 branch or by a fast path) carries exactly the three CORS headers
\* with the methods PUT, GET, POST, DELETE, on its response headers.
C22_CorsOnEveryResponse ==
  \A r \in Req : rq[r].status # 0 => rq[r].hdrs = RequiredCors

\* C23: the pool in use was created with a limit between 1 and the
\* default 16, whatever http-max-threads was set to, and no more tasks
\* than that run at the same time.
C23_PoolBounded ==
  pool = "live" =>
    /\ life.limit \in 1..DefaultMaxThreads
    /\ Cardinality(BusyWorkers) <= life.limit

\* The OPTIONS requests that have been given a response.
\* C34: a descriptor is freed at most once and, once its message has been
\* written and no task refers to it, exactly once; a descriptor whose push
\* reported failure is not worked on by a thread; no thread works on a
\* descriptor that has been freed; and the query reference taken at
\* handoff is released at most once and is not left behind.
C34_DescriptorFreedOnce ==
  \A r \in Req :
    /\ rq[r].frees <= 1
    /\ rq[r].qref \in {0, 1}
    /\ rq[r].push = "fail" => \A w \in BusyWorkers : wk[w].d # r
    /\ \A w \in BusyWorkers : wk[w].d = r => rq[r].d = "alloc"
    /\ (rq[r].st = "sent" /\ rq[r].d # "none" /\ ~InPool(r))
         => rq[r].frees = 1 /\ rq[r].qref = 0

\* C35: in every /pipelines/status response the count is the number of
\* entries of the pipelines array of that response.
C35_CountMatchesList ==
  \A r \in Req :
    (rq[r].resp[1] = "pstatus" /\ rq[r].status = 200)
      => rq[r].resp[3] = Cardinality(rq[r].resp[2])

\* C36: a request is answered on a fast path, without a descriptor handed
\* to the pool, exactly when it is a GET on /health or /pipelines/status;
\* every other request, other methods on those two paths included, is
\* handed to the pool.
C36_FastPathGetOnly ==
  \A r \in Req :
    rq[r].st \in {"handling", "returned"} =>
      LET fast == rq[r].in.method = "GET"
                  /\ rq[r].in.path \in {"/health", "/pipelines/status"}
      IN  /\ fast <=> rq[r].d = "none"
          /\ ~fast => rq[r].push # "none"

\* C37: when the instance is finalized, no task was queued or running at
\* the moment its mutex was destroyed, and once finalize is through, the
\* pool and the server of an instance that was started are released.
C37_FinalizeQuiesced ==
  /\ life.fin # "none" => life.pending = 0
  /\ life.fin = "done" =>
       /\ pool = "null" /\ server = "null"
       /\ life.poolFree = life.poolNew
       /\ life.srvUnref = life.srvNew

\* strstr (haystack, needle) # NULL, on sequences of characters.
strstr(haystack, needle) ==
  \E i \in 1..(Len(haystack) - Len(needle) + 1) :
    SubSeq(haystack, i, i + Len(needle) - 1) = needle

\* The GET /health requests that have been given a response.
HealthAnswered ==
  {r \in Req : /\ rq[r].in.method = "GET" /\ rq[r].in.path = "/health"
               /\ rq[r].status # 0}

OptionsAnswered == {r \in Req : rq[r].in.method = "OPTIONS" /\ rq[r].status # 0}

\* C30: an OPTIONS request on any path, whatever pipelines exist, is
\* answered 200 with return code EOK and a null response, without a call
\* of the parser and without a change of the pipelines; and any two
\* OPTIONS requests have the same status, CORS headers and body.
C30_OptionsUniform ==
  /\ [](\A r \in OptionsAnswered :
          /\ rq[r].status = 200
          /\ rq[r].resp = Envelope("EOK", NULL)
          /\ rq[r].parsed = 0)
  /\ [](\A r1, r2 \in OptionsAnswered :
          /\ rq[r1].status = rq[r2].status
          /\ rq[r1].hdrs = rq[r2].hdrs
          /\ rq[r1].resp = rq[r2].resp)
  /\ [][(\E r \in Req : rq'[r].in.method = "OPTIONS" /\ rq'[r] # rq[r])
          => pipes' = pipes]_vars

\* The requests a worker has answered.
WorkerAnswered == {r \in Req : rq[r].status # 0 /\ rq[r].d # "none"}

\* Whether the body gives the field: the Content-Type begins with
\* application/json, the body parses to an object, and the member is there
\* and a string.
BodyGives(in, member) ==
  /\ in.ctype \in JsonTypes
  /\ in.body = "obj"
  /\ member \notin {NULL, NotAString}

\* The field the claim has the request use.
FieldChosen(in, member, qvalue) ==
  IF BodyGives(in, member) THEN member
  ELSE IF in.query THEN qvalue
  ELSE NULL

\* C31: the name and the description a worker used are chosen field by
\* field: the string member of the JSON object in the body when there is
\* one, otherwise the query-string value of the same key, otherwise none;
\* a value of the body is never replaced by a value of the query string.
C31_FieldsBodyThenQuery ==
  \A r \in WorkerAnswered :
    /\ rq[r].name = FieldChosen(rq[r].in, rq[r].in.bname, rq[r].in.qname)
    /\ rq[r].desc = FieldChosen(rq[r].in, rq[r].in.bdesc, rq[r].in.qdesc)
    /\ BodyGives(rq[r].in, rq[r].in.bname) => rq[r].name = rq[r].in.bname
    /\ BodyGives(rq[r].in, rq[r].in.bdesc) => rq[r].desc = rq[r].in.bdesc

\* A create answered with the name of the body and the description of the
\* query string, both given in the query string.
C31_Witness ==
  \E r \in WorkerAnswered :
    /\ rq[r].in.ctype = "json_charset" /\ rq[r].in.body = "obj"
    /\ rq[r].in.bname = "p0" /\ rq[r].in.bdesc = NotAString
    /\ rq[r].in.qname = "p1" /\ rq[r].in.qdesc = "other"
    /\ rq[r].name = "p0" /\ rq[r].desc = "other"

\* What the thread is blocked on.
MuWaitsMutex(t) == mth[t].pc \in {"rq_lock1", "rq_lock2", "cbf_lock"}
MuWaitsLock(t) == mth[t].pc = "rq_parse"

\* C25: a thread that holds the request mutex holds no other lock, is at
\* one of the steps between a lock and its unlock, none of which waits
\* for anything, and has done nothing since it took the mutex but copy
\* the descriptor's fields, pause, unpause or set status 503; and no two
\* threads wait for each other's lock.
C25_MutexSectionsLocal ==
  \A t \in MuThreads :
    /\ mtx = t =>
         /\ plock # t
         /\ mth[t].pc \in {"cb_pause", "cb_unlock", "cbf_status", "cbf_unlock",
                           "rq_read", "rq_unlock1", "rq_unpause", "rq_unlock2"}
         /\ mth[t].crit \subseteq {"fields", "pause", "unpause", "status503"}
    /\ \A u \in MuThreads :
         ~(MuWaitsMutex(t) /\ mtx = u /\ MuWaitsLock(u) /\ plock = t)

\* C25 witness: a worker waits for the mutex to unpause its message while
\* the main thread holds it to pause the next one.
C25_Witness ==
  \E w \in Wk :
    /\ mth[w].pc = "rq_lock2"
    /\ mtx = 0 /\ MuMain.pc = "cb_pause"

\* The main thread is inside gstd_http_stop.
MuStopping == MuMain.pc \in {"stop_pool", "stop_server"}

----------------------------------------------------------------------------
\* Properties of the socket IPC

\* C12: on every connection the commands are handled one after the other:
\* when the task is about to read, every command read so far has been
\* dispatched to the parser once and its response has been handed to a
\* write; while a command is with the parser or being answered, it is the
\* only one not yet answered; and the i-th response written belongs to the
\* i-th command read.
C12_ConnectionSerialized ==
  \A c \in Conn :
    conn[c].pc \in {"read", "parse", "write", "close"} =>
      /\ conn[c].parsed <= conn[c].count
      /\ conn[c].written <= conn[c].parsed
      /\ conn[c].count <= conn[c].written + 1
      /\ conn[c].pc = "read"
           => conn[c].parsed = conn[c].count /\ conn[c].written = conn[c].count
      /\ conn[c].pc = "parse"
           => /\ conn[c].parsed = conn[c].count - 1
              /\ conn[c].written = conn[c].count - 1
      /\ conn[c].pc = "write"
           => /\ conn[c].parsed = conn[c].count
              /\ conn[c].written = conn[c].count - 1
      /\ conn[c].written >= 1 => conn[c].wcmd = conn[c].written

\* C12 witness: a connection has had MaxCmds commands read, dispatched and
\* answered in turn and is about to read again.
C12_Witness ==
  \E c \in Conn :
    /\ conn[c].pc = "read" /\ conn[c].count = MaxCmds
    /\ conn[c].parsed = MaxCmds /\ conn[c].written = MaxCmds
    /\ conn[c].wcmd = MaxCmds

\* C13: a connection is closed and its buffer freed at most once; a task
\* that has returned has done both exactly once, whether the peer closed,
\* the read failed or the write failed; a task inside its loop works on a
\* connection that is not closed and a buffer that is not freed; the loop
\* is left only towards the close, and nothing touches a connection once
\* its task has closed it.
C13_ClosedOnceOnEveryExit ==
  /\ [](\A c \in Conn :
          /\ conn[c].closes <= 1 /\ conn[c].frees <= 1
          /\ conn[c].pc = "done"
               => /\ conn[c].closes = 1 /\ conn[c].frees = 1
                  /\ conn[c].why \in {"peer closed", "read error", "write error"}
          /\ conn[c].pc # "done" => conn[c].closes = 0 /\ conn[c].frees = 0)
  /\ [][ \A c \in Conn :
           sst' = "run" =>
             /\ (conn[c].pc \in {"read", "parse", "write"}
                   /\ conn'[c].pc \notin {"read", "parse", "write"})
                  => conn'[c].pc = "close"
             /\ (conn[c].pc = "close" /\ conn'[c] # conn[c])
                  => conn'[c].pc = "done"
             /\ conn[c].pc = "done" => conn'[c] = conn[c]
     ]_vars

\* C13 witness: one task has returned after a write error and another
\* after a read error, each with its connection closed and buffer freed.
C13_Witness ==
  \E c, d \in Conn :
    /\ conn[c].pc = "done" /\ conn[c].why = "write error"
    /\ conn[c].closes = 1 /\ conn[c].frees = 1
    /\ conn[d].pc = "done" /\ conn[d].why = "read error"
    /\ conn[d].closes = 1 /\ conn[d].frees = 1

\* C14: when a task goes back to read after a write that reported no
\* error, the write has transferred the whole envelope and its NUL.
C14_ResponseComplete ==
  \A c \in Conn :
    (conn[c].pc = "read" /\ conn[c].written >= 1) => conn[c].wres = "all"

\* C15: when a read has returned data and the buffer goes to the parser,
\* the terminator stored at the byte count lies inside the buffer.
C15_TerminatorInsideBuffer ==
  \A c \in Conn :
    conn[c].pc = "parse" =>
      /\ conn[c].read >= 1 /\ conn[c].read <= size
      /\ TerminatorInside(conn[c].read)

\* C16: no service has its listener closed, is stopped or has the owner's
\* reference dropped more than once, however calls of start and stop from
\* several threads interleave.
C16_ServiceReleasedOnce ==
  \A s \in Svc :
    svc[s].closes <= 1 /\ svc[s].stops <= 1 /\ svc[s].unrefs <= 1

\* C17: when a call of gstd_socket_stop returns, no service accepts
\* connections and no connection task is inside its loop.
C17_StopDrainsConnections ==
  [][ \A t \in Ctl :
        (ctl[t].op = "stop" /\ ctl'[t].op = "none" /\ sst' = "run")
          => /\ \A s \in Svc : svc'[s].st # "live"
             /\ \A c \in Conn : conn'[c].pc \in {"none", "done"}
    ]_vars

----------------------------------------------------------------------------
\* Properties of the object tree

InIndex(n) == \E i \in 1..Len(tIndex) : tIndex[i] = n

\* Every caller has completed exactly one call, a create of this name.
AllCreated(name) ==
  \A t \in Callers :
    /\ th[t].pc = "idle" /\ th[t].nops = 1
    /\ th[t].op = "create" /\ th[t].name = name

\* C6: the container never holds two children of one name; and when all
\* callers have each made one create of the same name, in any
\* interleaving, exactly one of them got EOK, every other one got
\* EXISTING_RESOURCE, and the container holds exactly one such child.
C6_CreateLinearized ==
  \A name \in Names :
    /\ Cardinality(Children(name)) <= 1
    /\ AllCreated(name) =>
         /\ Cardinality({t \in Callers : th[t].ret = "EOK"}) = 1
         /\ \A t \in Callers : th[t].ret \in {"EOK", "EXISTING_RESOURCE"}
         /\ Cardinality(Children(name)) = 1

\* C6 witness: all callers have created "p0" concurrently; one won, one
\* was told the name exists.
C6_Witness ==
  /\ AllCreated("p0")
  /\ \E t \in Callers : th[t].ret = "EOK"
  /\ \E t \in Callers : th[t].ret = "EXISTING_RESOURCE"

\* C7: a node a caller got from path resolution and has not released is
\* live and counted; a delete has taken the node out of the index before
\* it releases the container's reference; and a destroyed node is in no
\* index and has no reference left.
C7_HeldNodeValid ==
  /\ \A t \in Callers :
       th[t].pc = "held" =>
         tNode[th[t].node].st = "live" /\ tNode[th[t].node].refs >= 1
  /\ \A t \in Callers :
       th[t].pc = "d_release" =>
         ~InIndex(th[t].node) /\ tNode[th[t].node].st = "live"
  /\ \A n \in NodeIds :
       tNode[n].st = "destroyed" => ~InIndex(n) /\ tNode[n].refs = 0

\* C7 witness: a caller still holds a node that another caller's delete
\* has removed from the container and let go of.
C7_Witness ==
  \E t, u \in Callers :
    /\ th[t].pc = "held" /\ ~InIndex(th[t].node)
    /\ tNode[th[t].node].st = "live" /\ tNode[th[t].node].refs = 1
    /\ th[u].pc = "idle" /\ th[u].op = "delete" /\ th[u].ret = "EOK"
    /\ th[u].node = th[t].node

\* C8: a pipeline whose state updates so far are (playing or paused),
\* null pairs has its play-hold count at the initial value 0; a delete of
\* it returns EOK, and once no caller refers to it it is destroyed.
C8_PlayHoldBalanced ==
  /\ \A n \in NodeIds :
       tNode[n].seq \in {"init", "even"} =>
         tNode[n].hold = 0 /\ tNode[n].state = "null"
  /\ \A t \in Callers :
       (th[t].op = "delete" /\ th[t].pc = "idle" /\ th[t].node # 0
          /\ tNode[th[t].node].seq = "even")
       => /\ th[t].ret = "EOK"
          /\ ~InIndex(th[t].node)
          /\ tNode[th[t].node].refs = 0 => tNode[th[t].node].st = "destroyed"

\* C8 witness: a pipeline that was played and set to null again has been
\* deleted with EOK and is destroyed.
C8_Witness ==
  \E t \in Callers :
    /\ th[t].op = "delete" /\ th[t].pc = "idle" /\ th[t].ret = "EOK"
    /\ th[t].node # 0
    /\ tNode[th[t].node].seq = "even" /\ tNode[th[t].node].hold = 0
    /\ tNode[th[t].node].st = "destroyed"

\* The caller is inside the iteration of handle_pipelines_status.
Iterating(t) == th[t].pc \in {"s_next", "s_query", "s_unref"}

\* C21: while the status handler iterates, concurrently with creates and
\* deletes, it holds the container lock from the first to the last visit
\* and no create is inside its critical section; the pipeline it is
\* visiting is the live member of the container at its position; and
\* from before the state query until after it the engine handle carries
\* the handler's reference besides the pipeline's own.
C21_StatusIterationLocked ==
  \A t \in Callers :
    /\ Iterating(t) =>
         /\ tLock = t
         /\ \A u \in Callers : th[u].pc # "c_install"
         /\ th[t].pos <= Len(tIndex)
    /\ th[t].pc \in {"s_query", "s_unref"} =>
         /\ tIndex[th[t].pos] = th[t].node
         /\ tNode[th[t].node].st = "live"
         /\ tNode[th[t].node].eref >= 2

\* C21 witness: the handler is querying a pipeline that another thread
\* has resolved and is working on.
C21_Witness ==
  \E t, u \in Callers :
    /\ th[t].pc = "s_query" /\ th[u].pc = "held"
    /\ th[u].node = th[t].node
    /\ tNode[th[t].node].eref = 2

\* C24: every state query made so far, by the state child and by the
\* status handler alike, was given the 100 ms timeout.
C24_StateQueryTimeout ==
  \A t \in Callers : th[t].tmo # -1 => th[t].tmo = StateTimeout

\* C28: no command crashes the process; the parser has answered the
\* empty command with BAD_COMMAND, a NULL command with NULL_ARGUMENT and
\* an unknown verb or shorthand with a code other than EOK; and the call
\* has left the container and its nodes as they were.
C28_ParserRejects ==
  /\ [](\A t \in Callers :
          /\ th[t].pc # "dead"
          /\ (th[t].op = "parse" /\ th[t].pc = "idle") =>
               /\ th[t].name = "" => th[t].ret = "BAD_COMMAND"
               /\ th[t].name = NULL => th[t].ret = "NULL_ARGUMENT"
               /\ th[t].name \notin {"", NULL} => th[t].ret # "EOK")
  /\ [][(\E t \in Callers : th'[t].op = "parse" /\ th'[t].nops = th[t].nops + 1)
          => UNCHANGED <<tIndex, tNode>>]_vars

\* C29: an update of a pipeline's state with a string that names no state,
\* the empty string included, returns BAD_VALUE each time it is made and
\* leaves the pipeline's state and its play-hold count as they were.
C29_InvalidStateRejected ==
  [][\A t \in Callers :
       (/\ th[t].pc = "held"
        /\ th'[t].pc = "held"
        /\ th'[t].nupd = th[t].nupd + 1
        /\ th'[t].val \notin StateNames \cup {NULL})
       => /\ th'[t].ret = "BAD_VALUE"
          /\ tNode'[th[t].node].state = tNode[th[t].node].state
          /\ tNode'[th[t].node].hold = tNode[th[t].node].hold]_vars

\* A running pipeline whose state child has just rejected the second update
\* made through one reference, the empty string.
C29_Witness ==
  \E t \in Callers :
    /\ th[t].pc = "held" /\ th[t].nupd = 2
    /\ th[t].val = "" /\ th[t].ret = "BAD_VALUE"
    /\ tNode[th[t].node].state = "playing"
    /\ tNode[th[t].node].hold = 1

----------------------------------------------------------------------------
\* Properties of the session

\* The references the threads hold on instance i.
RECURSIVE HeldBy(_, _)
HeldBy(t, i) ==
  IF t = 0 THEN 0
  ELSE Cardinality({k \in 1..Len(sth[t].held) : sth[t].held[k] = i})
       + (IF sth[t].pc = "s_unlock" /\ sth[t].got = i THEN 1 ELSE 0)
       + HeldBy(t - 1, i)

\* C27: at most one session instance is alive; every reference a thread
\* holds, however the acquisitions and releases of the threads interleave,
\* is on that live, published instance, so that all holders have the same
\* one; its count is the number of references held, which is the
\* acquisitions less the releases; and an instance that has been torn down
\* has as many releases as acquisitions and no holder.
C27_SessionSingleton ==
  /\ Cardinality({i \in SessIds : sInst[i].st = "live"}) <= 1
  /\ \A i \in SessIds :
       /\ sInst[i].st = "live" =>
            /\ the_session = i
            /\ sInst[i].refs >= 1
       /\ sInst[i].st # "none" =>
            /\ sInst[i].refs = sInst[i].acq - sInst[i].rel
            /\ sInst[i].refs = HeldBy(MaxSessThreads, i)
       /\ sInst[i].st = "gone" => sInst[i].acq = sInst[i].rel
  /\ \A t \in SessThreads :
       \A k \in 1..Len(sth[t].held) : sInst[sth[t].held[k]].st = "live"

\* C27 witness: two threads acquired the session and got the same
\* instance; one has released its reference and the other still
\* holds the live instance.
C27_Witness ==
  \E t, u \in SessThreads, i \in SessIds :
    /\ t # u
    /\ sth[t].held = <<i>> /\ sth[u].held = <<>> /\ sth[u].got = i
    /\ sth[u].pc = "idle"
    /\ sInst[i].st = "live" /\ sInst[i].acq = 2 /\ sInst[i].rel = 1

----------------------------------------------------------------------------
\* Properties of the response envelope

\* C32: for every return code and parser output, the body given to the HTTP
\* message is what is given to the TCP stream less its last byte, which is
\* the NUL; both are the envelope of the code, the description of the code
\* and the parser's output as response, the literal null exactly when the
\* parser left no output.
C32_SameEnvelope ==
  (env.http # <<>> /\ env.tcp # <<>>) =>
    /\ env.tcp = Append(env.http, NUL)
    /\ \A i \in 1..Len(env.http) : env.http[i] # NUL
    /\ Len(env.http) = 7
    /\ env.http[2] = <<"%d", env.ret>>
    /\ env.http[4] = <<"%s", "gstd_return_code_to_string", env.ret>>
    /\ (env.http[6] = <<"text", "null">>) <=> (env.out = NULL)
    /\ env.out # NULL => env.http[6] = <<"%s", env.out>>

\* Both transports have answered a BAD_VALUE for which the parser left no
\* output.
C32_Witness ==
  /\ env.ret = "BAD_VALUE" /\ env.out = NULL
  /\ Len(env.http) = 7 /\ Len(env.tcp) = 8

----------------------------------------------------------------------------
\* Properties of the action create handler

\* C38: whenever the handler has returned after it split the description,
\* the return for a wrong number of arguments included, the argument list
\* has been freed exactly once.
C38_ArgListFreedOnce ==
  /\ act.frees <= 1
  /\ (act.pc = "returned" /\ act.list # "none")
       => act.list = "freed" /\ act.frees = 1

\* The arguments a description yields: none when it is absent, empty or
\* "(null)", otherwise its pieces, at most as many as there are parameters
\* when there are any.
ArgsYielded(types, description) ==
  IF description \in {NoDescription, EmptyString, NullString} THEN 0
  ELSE Len(g_strsplit(description.words, Len(types)))

\* C39: the handler returns; it has emitted the signal once and returned
\* EOK exactly when the description yields as many arguments as the signal
\* has parameters and every parameter type is one of the seven; with
\* parameters and a description that is absent, empty or "(null)" or that
\* yields too few arguments it has returned NULL_ARGUMENT, and with a type
\* that is none of the seven BAD_COMMAND, both without an emission.
C39_EmitsIffWellFormed ==
  /\ act.pc # "dead"
  /\ act.emits <= 1
  /\ act.pc = "returned" =>
       LET n == Len(act.types)
           yielded == ArgsYielded(act.types, act.desc)
           supported == \A i \in 1..n : act.types[i] \in SupportedTypes
       IN  /\ (act.emits = 1 /\ act.ret = "EOK") <=> (yielded = n /\ supported)
           /\ (n >= 1 /\ yielded < n)
                => act.ret = "NULL_ARGUMENT" /\ act.emits = 0
           /\ (yielded = n /\ ~supported)
                => act.ret = "BAD_COMMAND" /\ act.emits = 0

====
